---- MODULE Spec2Model ----
(***************************************************************************)
(* The pointer-event drag-and-drop controller of src/src/lib/utils/dnd.ts  *)
(* (function dragDrop), as a state machine.                                *)
(*                                                                         *)
(* The state is the closure state of one controller instance together     *)
(* with the part of the DOM it reads and writes: the child order of the    *)
(* container, the listeners attached to the document and to the items,     *)
(* the ghost clones attached to document.body, the inline style of the     *)
(* items and of document.body, and the browser's queue of animation-frame  *)
(* callbacks.  Each browser event is one action that runs every listener   *)
(* the document holds for it, in registration order, followed by the       *)
(* MutationObserver callback the handlers' DOM changes queue.              *)
(*                                                                         *)
(* The closure variables startX, startY, currentX, currentY, hasMoved and  *)
(* isHorizontalLayout are written but never read outside the statement     *)
(* that follows their assignment; they are locals of the operators below.  *)
(***************************************************************************)
EXTENDS Integers, Sequences, FiniteSets, TLC

(***************************************************************************)
(* Bounds of the model.                                                    *)
(***************************************************************************)
\* number of children of the container that carry data-draggable
NItems == 3
\* pending-gesture closures (handleMove/handleUp pairs) attached at one time
MaxClosures == 2
\* the same, in the behaviours of Spec
DragClosures == 1

(***************************************************************************)
(* Elements.  Items are 1..NItems.                                         *)
(***************************************************************************)
Null == 0
Items == 1..NItems
\* a child of the container without data-draggable
Deco == NItems + 1
\* the node createPlaceholder makes (data-placeholder, no data-draggable)
Placeholder == NItems + 2
\* an element with data-draggable that is not a child of the container
\* (an item of a list nested inside one of the items)
Nested == NItems + 3

(***************************************************************************)
(* Program constants.                                                      *)
(***************************************************************************)
MouseThreshold == 8
TouchThreshold == 20
TouchScrollThreshold == 30
TimeGateMs == 200

(***************************************************************************)
(* Input sets.                                                             *)
(***************************************************************************)
\* clientX/clientY of a pointer-down
DownPoints == {[x |-> 40, y |-> 40], [x |-> 44, y |-> 48]}
\* displacements of a move event from the point (40, 40) while a gesture is pending
Deltas == {0, 7, 8, 20, 21, 30}
\* clientX/clientY of a move event during a drag
DragPoints == {[x |-> 50, y |-> 50], [x |-> 60, y |-> 40]}
\* the first of them
DragPoint == [x |-> 50, y |-> 50]
\* Date.now() - startTime of a closure, in ms
Elapsed == {0, 250}
\* getBoundingClientRect() of the item at pointer-down and at drag-start
ItemRect == [left |-> 30, top |-> 30, width |-> 20, height |-> 20]
\* getBoundingClientRect() of the hovered item during a drag
HoverRects == {[left |-> 40, top |-> 30, width |-> 20, height |-> 40],
               [left |-> 45, top |-> 35, width |-> 30, height |-> 40]}
\* getBoundingClientRect() of the first and of the last item during a drag
EdgeRects == {[first |-> [left |-> 40, top |-> 30, width |-> 20, height |-> 40],
               last |-> [left |-> 40, top |-> 30, width |-> 20, height |-> 40]],
              [first |-> [left |-> 55, top |-> 45, width |-> 3, height |-> 3],
               last |-> [left |-> 55, top |-> 45, width |-> 3, height |-> 3]],
              [first |-> [left |-> 35, top |-> 55, width |-> 10, height |-> 5],
               last |-> [left |-> 35, top |-> 55, width |-> 10, height |-> 5]],
              [first |-> [left |-> 55, top |-> 55, width |-> 10, height |-> 5],
               last |-> [left |-> 35, top |-> 35, width |-> 10, height |-> 5]]}

(***************************************************************************)
(* Sequence and DOM helpers.                                               *)
(***************************************************************************)
Abs(n) == IF n < 0 THEN -n ELSE n

Max(a, b) == IF a > b THEN a ELSE b

\* Array.prototype.indexOf: zero-based, -1 when absent
IndexOf(s, e) ==
    IF \E i \in 1..Len(s) : s[i] = e
    THEN (CHOOSE i \in 1..Len(s) : s[i] = e /\ \A j \in 1..(i - 1) : s[j] # e) - 1
    ELSE -1

\* ChildNode.remove()
RemoveNode(s, e) == SelectSeq(s, LAMBDA v : v # e)

\* Node.nextSibling within the child list s (Null for the last child)
NextSibling(s, e) ==
    LET i == IndexOf(s, e) + 1
    IN IF i = 0 \/ i = Len(s) THEN Null ELSE s[i + 1]

\* an insertion that makes n and ref change places
InsertBefore_swaps(s, n, ref) ==
    IF ref = Null \/ IndexOf(s, ref) = -1
    THEN Append(RemoveNode(s, n), n)
    ELSE [i \in 1..Len(s) |-> IF s[i] = n THEN ref ELSE IF s[i] = ref THEN n ELSE s[i]]

\* Node.insertBefore(n, ref) on the child list s; ref = Null appends, and
\* ref = n stands for n's next sibling (DOM "pre-insert")
InsertBefore(s, n, ref) ==
    LET r == IF ref = n THEN NextSibling(s, n) ELSE ref
        t == RemoveNode(s, n)
        k == IndexOf(t, r) + 1
    IN IF r = Null \/ k = 0
       THEN Append(t, n)
       ELSE SubSeq(t, 1, k - 1) \o <<n>> \o SubSeq(t, k, Len(t))

\* an append that puts the node in front of the others
AppendChild_inFront(s, n) == <<n>> \o RemoveNode(s, n)

\* Node.appendChild(n)
AppendChild(s, n) == Append(RemoveNode(s, n), n)

HasDraggableAttr(e) == e \in Items \/ e = Nested

\* a query that forgets the [data-draggable] filter
getDraggableItems_allChildren(ch) == ch

\* getDraggableItems(): the children of the container with data-draggable
getDraggableItems(ch) == SelectSeq(ch, HasDraggableAttr)

Count(s, e) == Cardinality({i \in 1..Len(s) : s[i] = e})

(***************************************************************************)
(* State.                                                                  *)
(***************************************************************************)
VARIABLES
    children,          \* node.children, in document order
    options,           \* [disabled, handle]: handle is TRUE when a selector is set
    draggedElement,    \* an item, or Null
    draggedIndex,
    ghostElement,      \* <<>> for null, else <<[top, left]>>: the clone's fixed position
    placeholder,       \* Placeholder, or Null
    offsetY,
    offsetX,
    isDragging,
    animationFrameId,  \* id of the frame callback last requested, or Null
    pendingDrag,       \* <<>> for null, else <<[item, startY, startX, offsetY, offsetX]>>
    docListeners,      \* listeners attached to document, in registration order
    itemListeners,     \* the items handlePointerDown is attached to
    observing,         \* the MutationObserver is connected
    bodyGhosts,        \* number of ghost clones attached to document.body
    itemStyle,         \* inline opacity/transition/pointer-events and the dragging class
    bodyStyle,         \* document.body.style.userSelect and .cursor
    rafCallbacks,      \* the browser's queue of requested frame callbacks
    onDropCalls,       \* arguments of the options.onDrop calls of the last handler run
    sessionEnd,        \* how the last step ended a drag session, "none" if it ended none
    preDrag,           \* <<>>, or <<what held when the current session started>>
    categoriesChannel, \* id of the channel the client module holds, or Null
    spotsChannel,
    clientChannels,    \* the channels registered with the supabase client
    channelsCreated,   \* number of supabase.channel() calls so far
    unsubCats,         \* <<>> for null, else <<the closure the store module holds>>
    unsubSpots,
    unsubscribers,     \* the closures returned to the other callers of subscribeTo*
    categories,        \* the categories store: a sequence of categories with their spots
    tags,              \* the tags store
    selectedTagFilter, \* a tag id, or Null
    database,          \* the hosted database's tables
    inFlight,          \* the store functions suspended at an await, in call order
    realtime,          \* the change events sent to the store's channels, not yet delivered
    callsMade          \* number of calls of store functions so far

\* the variables of the realtime client and the closures kept of it
clientVars == <<categoriesChannel, spotsChannel, clientChannels, channelsCreated,
                unsubCats, unsubSpots, unsubscribers>>

\* the stores, the database behind them and what is under way between them
dataVars == <<categories, tags, selectedTagFilter, database, inFlight, realtime,
              callsMade>>

\* the variables of the drag controller and of the page it runs in
dragVars == <<children, options, draggedElement, draggedIndex, ghostElement, placeholder,
              offsetY, offsetX, isDragging, animationFrameId, pendingDrag, docListeners,
              itemListeners, observing, bodyGhosts, itemStyle, bodyStyle, rafCallbacks,
              onDropCalls, sessionEnd, preDrag>>

vars == <<children, options, draggedElement, draggedIndex, ghostElement, placeholder,
          offsetY, offsetX, isDragging, animationFrameId, pendingDrag, docListeners,
          itemListeners, observing, bodyGhosts, itemStyle, bodyStyle, rafCallbacks,
          onDropCalls, sessionEnd, preDrag, clientVars, dataVars>>

\* The state the handlers read and write, as one record.  onDropCalls starts
\* empty: it collects the calls of the handlers run for one event.
\* captureThrows tells whether item.setPointerCapture throws in this run; the
\* events that let it throw set it.
State ==
    [children |-> children, options |-> options, draggedElement |-> draggedElement,
     draggedIndex |-> draggedIndex, ghostElement |-> ghostElement,
     placeholder |-> placeholder, offsetY |-> offsetY, offsetX |-> offsetX,
     isDragging |-> isDragging, animationFrameId |-> animationFrameId,
     pendingDrag |-> pendingDrag, docListeners |-> docListeners,
     itemListeners |-> itemListeners, observing |-> observing,
     bodyGhosts |-> bodyGhosts, itemStyle |-> itemStyle, bodyStyle |-> bodyStyle,
     rafCallbacks |-> rafCallbacks, onDropCalls |-> <<>>, captureThrows |-> FALSE]

\* The listeners a pointer-down attaches to document (handleMove and handleUp
\* of one closure), and the three startDrag attaches (handlePointerMove on
\* pointermove, handlePointerUp on pointerup and on pointercancel).
PendingEntry(isTouch, isScrollable) ==
    [kind |-> "pending", isTouch |-> isTouch, isScrollable |-> isScrollable]

DragEntry == [kind |-> "drag", isTouch |-> FALSE, isScrollable |-> FALSE]

RemoveAt(s, i) == SubSeq(s, 1, i - 1) \o SubSeq(s, i + 1, Len(s))

PendingCount(L) == Cardinality({i \in 1..Len(L) : L[i].kind = "pending"})

DragAttached(L) == \E i \in 1..Len(L) : L[i].kind = "drag"

DefaultStyle == [opacity |-> "", transition |-> "", pointerEvents |-> "", dragging |-> FALSE]

\* the styling without classList.add('dragging')
MutedStyle_noMarker == [opacity |-> "0.3", transition |-> "none", pointerEvents |-> "none", dragging |-> FALSE]

\* what startDrag makes of the dragged item's inline style and class
MutedStyle == [opacity |-> "0.3", transition |-> "none", pointerEvents |-> "none", dragging |-> TRUE]

\* an item whose markup sets inline styles of its own
CustomStyle == [opacity |-> "0.5", transition |-> "all 0.2s", pointerEvents |-> "auto", dragging |-> FALSE]

(***************************************************************************)
(* cleanup()                                                               *)
(***************************************************************************)
\* a cleanup that leaves isDragging set
cleanup_staysDragging(s) ==
    [s EXCEPT
        !.pendingDrag = <<>>,
        !.bodyGhosts = IF s.ghostElement # <<>> THEN @ - 1 ELSE @,
        !.ghostElement = <<>>,
        !.children = IF s.placeholder # Null THEN RemoveNode(@, s.placeholder) ELSE @,
        !.placeholder = Null,
        !.itemStyle = IF s.draggedElement # Null
                      THEN [@ EXCEPT ![s.draggedElement] = DefaultStyle]
                      ELSE @,
        !.draggedElement = Null,
        !.draggedIndex = -1]

\* a cleanup that leaves the placeholder in the container
cleanup_keepsPlaceholder(s) ==
    [s EXCEPT
        !.pendingDrag = <<>>,
        !.bodyGhosts = IF s.ghostElement # <<>> THEN @ - 1 ELSE @,
        !.ghostElement = <<>>,
        !.itemStyle = IF s.draggedElement # Null
                      THEN [@ EXCEPT ![s.draggedElement] = DefaultStyle]
                      ELSE @,
        !.draggedElement = Null,
        !.isDragging = FALSE,
        !.draggedIndex = -1]

cleanup(s) ==
    [s EXCEPT
        !.pendingDrag = <<>>,
        !.bodyGhosts = IF s.ghostElement # <<>> THEN @ - 1 ELSE @,
        !.ghostElement = <<>>,
        !.children = IF s.placeholder # Null THEN RemoveNode(@, s.placeholder) ELSE @,
        !.placeholder = Null,
        !.itemStyle = IF s.draggedElement # Null
                      THEN [@ EXCEPT ![s.draggedElement] = DefaultStyle]
                      ELSE @,
        !.draggedElement = Null,
        !.isDragging = FALSE,
        !.draggedIndex = -1]

(***************************************************************************)
(* setupListeners() and the MutationObserver callback                      *)
(***************************************************************************)
setupListeners(s) ==
    LET items == getDraggableItems(s.children)
    IN [s EXCEPT !.itemListeners = @ \cup {items[i] : i \in 1..Len(items)}]

\* a callback that does not look at isDragging
observerCallback_always(before, s) ==
    IF s.observing /\ s.children # before.children
    THEN setupListeners(s)
    ELSE s

\* The observer's callback runs as a microtask once the handlers that changed
\* the child list have returned: before is the state the event found.
observerCallback(before, s) ==
    IF s.observing /\ s.children # before.children /\ ~s.isDragging
    THEN setupListeners(s)
    ELSE s

(***************************************************************************)
(* startDrag(item, e)                                                      *)
(***************************************************************************)
addDragListeners(L) == IF DragAttached(L) THEN L ELSE Append(L, DragEntry)

\* parent.insertBefore(n, ref) for a node n that is not in the document yet
InsertNew(s, n, ref) ==
    LET k == IndexOf(s, ref) + 1
    IN IF ref = Null \/ k = 0
       THEN Append(s, n)
       ELSE SubSeq(s, 1, k - 1) \o <<n>> \o SubSeq(s, k, Len(s))

startDrag(s, item) ==
    IF s.isDragging THEN s
    ELSE LET idx == IndexOf(getDraggableItems(s.children), item)
         IN IF idx = -1
            THEN [s EXCEPT !.isDragging = FALSE, !.draggedElement = Null,
                           !.draggedIndex = -1]
            ELSE LET s1 == [s EXCEPT
                              !.isDragging = TRUE,
                              !.draggedElement = item,
                              !.draggedIndex = idx,
                              !.ghostElement = <<[top |-> ItemRect.top, left |-> ItemRect.left]>>,
                              !.bodyGhosts = @ + 1,
                              !.placeholder = Placeholder,
                              !.children = InsertNew(@, Placeholder, NextSibling(@, item)),
                              !.itemStyle = [@ EXCEPT ![item] = MutedStyle]]
                 IN IF s.captureThrows
                    THEN s1  \* the exception leaves startDrag here
                    ELSE [s1 EXCEPT
                            !.docListeners = addDragListeners(@),
                            !.bodyStyle = [userSelect |-> "none", cursor |-> "grabbing"]]

(***************************************************************************)
(* handlePointerDown(e).  e gives what the handler reads of the event and  *)
(* of the DOM: closest is target.closest('[data-draggable]'); interactive  *)
(* is "none" when target.closest('button, input, ...') is null, "item"     *)
(* when it is that closest draggable element and "inner" otherwise;        *)
(* inHandle is target.closest(options.handle) # null; touchWindow is       *)
(* 'ontouchstart' in window; scrollable is the isScrollable it computes.   *)
(***************************************************************************)
\* a guard that looks at options.disabled only
ignoresPointerDown_disabledOnly(s) == s.options.disabled

\* if (options.disabled || isDragging) return
ignoresPointerDown(s) == s.options.disabled \/ s.isDragging

\* a handle check that lets every target through
outsideHandle_never(s, e) == FALSE

\* if (options.handle) { if (!target.closest(options.handle)) return }
outsideHandle(s, e) == s.options.handle /\ ~e.inHandle

handlePointerDown(s, e) ==
    IF ignoresPointerDown(s) THEN s
    ELSE IF e.interactive = "inner" THEN s
    ELSE IF outsideHandle(s, e) THEN s
    ELSE IF e.closest = Null THEN s
    ELSE LET isTouch == e.pointerType = "touch" \/ e.touchWindow
             oy == e.point.y - ItemRect.top
             ox == e.point.x - ItemRect.left
         IN [s EXCEPT
                !.offsetY = oy,
                !.offsetX = ox,
                !.pendingDrag = <<[item |-> e.closest, startY |-> e.point.y,
                                   startX |-> e.point.x, offsetY |-> oy, offsetX |-> ox]>>,
                !.docListeners = Append(@, PendingEntry(isTouch, e.scrollable))]

(***************************************************************************)
(* handleMove(moveEvent) of the closure c, and its handleUp()              *)
(***************************************************************************)
dragThreshold(c) ==
    IF c.isTouch
    THEN (IF c.isScrollable THEN TouchScrollThreshold ELSE TouchThreshold)
    ELSE MouseThreshold

\* what handleMove decides for the pending drag pd at point p, elapsed ms
\* after the closure's pointer-down: "scroll" cancels, "wait" returns,
\* "promote" starts the drag
Decide(c, pd, p, elapsed) ==
    LET moveDistanceY == Abs(p.y - pd.startY)
        moveDistanceX == Abs(p.x - pd.startX)
        moveDistance == Max(moveDistanceY, moveDistanceX)
        T == dragThreshold(c)
    IN IF c.isTouch /\ c.isScrollable
       THEN IF 2 * moveDistanceY > 3 * moveDistanceX THEN "scroll"
            ELSE IF moveDistance < T \/ (10 * moveDistance < 7 * T /\ elapsed < TimeGateMs)
                 THEN "wait"
                 ELSE "promote"
       ELSE IF moveDistance < T THEN "wait" ELSE "promote"

\* i is the place of the closure's listeners in document's list
handleMove(s, i, c, p, elapsed) ==
    IF s.pendingDrag = <<>> THEN s
    ELSE LET d == Decide(c, s.pendingDrag[1], p, elapsed)
         IN IF d = "scroll"
            THEN [s EXCEPT !.pendingDrag = <<>>, !.docListeners = RemoveAt(@, i)]
            ELSE IF d = "wait" THEN s
            ELSE LET s1 == startDrag(s, s.pendingDrag[1].item)
                     threw == s.captureThrows /\ ~s.isDragging /\ s1.isDragging
                 IN IF threw
                    THEN s1  \* the exception leaves handleMove as well
                    ELSE [s1 EXCEPT !.pendingDrag = <<>>, !.docListeners = RemoveAt(@, i)]

handleUp(s, i) ==
    [s EXCEPT !.pendingDrag = <<>>, !.docListeners = RemoveAt(@, i)]

(***************************************************************************)
(* requestAnimationFrame / cancelAnimationFrame                            *)
(***************************************************************************)
\* a cancel that takes the id after the one it is given
cancelAnimationFrame_nextId(q, id) == SelectSeq(q, LAMBDA cb : cb.id # id + 1)

\* a cancel that leaves the callback queued
cancelAnimationFrame_keeps(q, id) == q

cancelAnimationFrame(q, id) == SelectSeq(q, LAMBDA cb : cb.id # id)

\* the id requestAnimationFrame returns: one no queued callback has
NewFrameId(q) ==
    CHOOSE k \in 1..(Len(q) + 1) :
        /\ \A i \in 1..Len(q) : q[i].id # k
        /\ \A j \in 1..(k - 1) : \E i \in 1..Len(q) : q[i].id = j

(***************************************************************************)
(* handlePointerMove(e)                                                    *)
(***************************************************************************)
handlePointerMove(s, p) ==
    IF ~s.isDragging \/ s.draggedElement = Null THEN s
    ELSE LET q == IF s.animationFrameId # Null
                  THEN cancelAnimationFrame(s.rafCallbacks, s.animationFrameId)
                  ELSE s.rafCallbacks
             id == NewFrameId(q)
         IN [s EXCEPT !.rafCallbacks = Append(q, [id |-> id, x |-> p.x, y |-> p.y]),
                      !.animationFrameId = id]

(***************************************************************************)
(* updateDragPosition(x, y).  env gives what it reads of the layout: the   *)
(* container's computed style (horizontal), the draggable element under    *)
(* the point (hovered, Null when there is none) and the bounding boxes of  *)
(* the hovered, the first and the last item.                               *)
(***************************************************************************)
\* a comparison that takes the vertical midpoint in every layout
onBeforeSide_verticalOnly(p, env) == 2 * p.y < 2 * env.rect.top + env.rect.height

\* x < hoveredMiddle in a horizontal layout, y < hoveredMiddle otherwise
onBeforeSide(p, env) ==
    IF env.horizontal
    THEN 2 * p.x < 2 * env.rect.left + env.rect.width
    ELSE 2 * p.y < 2 * env.rect.top + env.rect.height

\* an update that leaves the placeholder where it is
followWithPlaceholder_stays(ch, d, ph) == ch

\* the placeholder goes right after the dragged element
followWithPlaceholder(ch, d, ph) == InsertBefore(ch, ph, NextSibling(ch, d))

\* an update that goes on without a session
hasNoSession_never(s) == FALSE

\* if (!ghostElement || !draggedElement || !placeholder) return
hasNoSession(s) == s.ghostElement = <<>> \/ s.draggedElement = Null \/ s.placeholder = Null

\* a ghost positioned at the pointer itself
ghostPosition_noOffset(s, p) == [top |-> p.y, left |-> p.x]

\* newTop = currentY - offsetY, newLeft = currentX - offsetX
ghostPosition(s, p) == [top |-> p.y - s.offsetY, left |-> p.x - s.offsetX]

updateDragPosition(s, p, env) ==
    IF hasNoSession(s) THEN s
    ELSE
    LET d == s.draggedElement
        ph == s.placeholder
        h == env.hovered
        ch == s.children
        items == getDraggableItems(ch)
        s0 == [s EXCEPT !.ghostElement = <<ghostPosition(s, p)>>]
    IN IF h # Null /\ h # d /\ h # ph
       THEN LET hoveredIndex == IndexOf(items, h)
                currentDraggedIndex == IndexOf(items, d)
                insertBefore == IF onBeforeSide(p, env) THEN h ELSE NextSibling(ch, h)
                ch1 == IF insertBefore # Null /\ insertBefore # d
                       THEN InsertBefore(ch, d, insertBefore)
                       ELSE IF insertBefore = Null THEN AppendChild(ch, d) ELSE ch
                ch2 == IF Count(ch1, ph) > 0 /\ NextSibling(ch1, d) # ph
                       THEN followWithPlaceholder(ch1, d, ph)
                       ELSE ch1
            IN IF hoveredIndex # -1 /\ currentDraggedIndex # -1
                  /\ hoveredIndex # currentDraggedIndex
               THEN [s0 EXCEPT !.children = ch2]
               ELSE s0
       ELSE IF h = Null /\ Len(items) > 0
       THEN LET firstItem == items[1]
                lastItem == items[Len(items)]
                f == env.firstRect
                l == env.lastRect
                beyondFirst == IF env.horizontal THEN p.x < f.left ELSE p.y < f.top
                beyondLast == IF env.horizontal
                              THEN p.x > l.left + l.width
                              ELSE p.y > l.top + l.height
                toFront == InsertBefore(ch, d, firstItem)
                toEnd == AppendChild(ch, d)
            IN IF beyondFirst
               THEN [s0 EXCEPT !.children = followWithPlaceholder(toFront, d, ph)]
               ELSE IF beyondLast
               THEN [s0 EXCEPT !.children = followWithPlaceholder(toEnd, d, ph)]
               ELSE s0
       ELSE s0

\* the callback handlePointerMove passes to requestAnimationFrame
frameCallback(s, cb, env) ==
    LET s1 == updateDragPosition(s, [x |-> cb.x, y |-> cb.y], env)
    IN [s1 EXCEPT !.animationFrameId = Null]

(***************************************************************************)
(* handlePointerUp(e), attached to pointerup and to pointercancel          *)
(***************************************************************************)
removeDragListeners(L) == SelectSeq(L, LAMBDA c : c.kind # "drag")

\* a release that does not compare the final index with the initial one
positionChanged_anyIndex(s, finalIndex) ==
    s.draggedElement # Null /\ finalIndex # -1

\* the condition under which handlePointerUp calls options.onDrop
positionChanged(s, finalIndex) ==
    s.draggedElement # Null /\ finalIndex # -1 /\ finalIndex # s.draggedIndex

handlePointerUp(s) ==
    IF ~s.isDragging THEN s
    ELSE
    LET s1 == IF s.animationFrameId # Null
              THEN [s EXCEPT !.rafCallbacks = cancelAnimationFrame(@, s.animationFrameId),
                             !.animationFrameId = Null]
              ELSE s
        items == getDraggableItems(s.children)
        finalIndex == IF s.draggedElement # Null THEN IndexOf(items, s.draggedElement) ELSE -1
        s2 == IF positionChanged(s, finalIndex)
              THEN [s1 EXCEPT !.onDropCalls =
                        Append(@, [from |-> s.draggedIndex, to |-> finalIndex])]
              ELSE s1
        s3 == cleanup(s2)
    IN [s3 EXCEPT !.docListeners = removeDragListeners(@),
                  !.bodyStyle = [userSelect |-> "", cursor |-> ""]]

(***************************************************************************)
(* update(newOptions) and destroy()                                        *)
(***************************************************************************)
\* an update that only stores the new options
update_storesOnly(s, newOptions) == [s EXCEPT !.options = newOptions]

update(s, newOptions) ==
    LET s1 == [s EXCEPT !.options = newOptions]
    IN IF newOptions.disabled /\ s1.isDragging THEN cleanup(s1) ELSE s1

destroy(s) ==
    LET s1 == cleanup([s EXCEPT !.observing = FALSE])
        items == getDraggableItems(s1.children)
    IN [s1 EXCEPT !.itemListeners = @ \ {items[i] : i \in 1..Len(items)},
                  !.docListeners = removeDragListeners(@)]

(***************************************************************************)
(* Event dispatch: the listeners document holds when the event arrives run *)
(* in registration order.  L is that list, i the next listener, removed    *)
(* the number of listeners before i that have removed themselves.          *)
(***************************************************************************)
RECURSIVE dispatchMove(_, _, _, _, _, _)
dispatchMove(s, L, i, removed, p, el) ==
    IF i > Len(L) THEN s
    ELSE IF L[i].kind = "pending"
    THEN LET s1 == handleMove(s, i - removed, L[i], p, el[i])
             gone == IF s.pendingDrag # <<>> /\ s1.pendingDrag = <<>> THEN 1 ELSE 0
         IN dispatchMove(s1, L, i + 1, removed + gone, p, el)
    ELSE dispatchMove(handlePointerMove(s, p), L, i + 1, removed, p, el)

\* a dispatch in which handlePointerUp is registered for pointerup only
RECURSIVE dispatchUp_upOnly(_, _, _, _, _)
dispatchUp_upOnly(s, L, i, removed, type) ==
    IF i > Len(L) \/ type # "pointerup" THEN s
    ELSE IF L[i].kind = "pending"
    THEN dispatchUp_upOnly(handleUp(s, i - removed), L, i + 1, removed + 1, type)
    ELSE LET s1 == handlePointerUp(s)
             gone == IF DragAttached(s1.docListeners) THEN 0 ELSE 1
         IN dispatchUp_upOnly(s1, L, i + 1, removed + gone, type)

RECURSIVE dispatchUp(_, _, _, _, _)
dispatchUp(s, L, i, removed, type) ==
    IF i > Len(L) THEN s
    ELSE IF L[i].kind = "pending"
    THEN IF type = "pointerup"
         THEN dispatchUp(handleUp(s, i - removed), L, i + 1, removed + 1, type)
         ELSE dispatchUp(s, L, i + 1, removed, type)
    ELSE LET s1 == handlePointerUp(s)
             gone == IF DragAttached(s1.docListeners) THEN 0 ELSE 1
         IN dispatchUp(s1, L, i + 1, removed + gone, type)

(***************************************************************************)
(* Initial state: dragDrop(node, options) has returned.  The container     *)
(* holds a non-draggable child followed by the items; setupListeners() has *)
(* attached handlePointerDown to every item; item 1 has inline styles of   *)
(* its own.  I.options are the options the caller may pass, I.initialCount *)
(* the number of items the container holds at that time.                   *)
(***************************************************************************)
(***************************************************************************)
(* The stores.  A database row and a store entry are records; ids are      *)
(* numbers the database hands out in order.  display_order is a number in  *)
(* every row, for which the comparator's (x.display_order || 0) is         *)
(* x.display_order.  A store function that awaits the database is an entry *)
(* of inFlight from the step that sends the request, which is taken with   *)
(* the database's execution of it, to the step that runs the code after    *)
(* the await.                                                              *)
(***************************************************************************)
MaxCategories == 3
MaxCalls == 2

DEFAULT_CATEGORIES == <<"Favourite", "Blacklist">>

\* a call of a store function is taken while fewer than MaxCalls were made
CallMade ==
    /\ callsMade < MaxCalls
    /\ callsMade' = callsMade + 1

\* String.prototype.toLowerCase on the names in use
toLowerCase(name) ==
    CASE name = "Favourite" -> "favourite"
      [] name = "Blacklist" -> "blacklist"
      [] name = "Cafes " -> "cafes "
      [] name = "Cafes" -> "cafes"
      [] OTHER -> name

\* String.prototype.trim on the names in use
trim(name) ==
    CASE name = "Cafes " -> "Cafes"
      [] name = "  " -> ""
      [] OTHER -> name

\* the sequence f(q[1]), ..., f(q[n])
Map(q, f(_)) == [i \in 1..Len(q) |-> f(q[i])]

\* the position of the first entry with the id, 0 if there is none
Find(q, id) ==
    IF \E i \in 1..Len(q) : q[i].id = id
    THEN CHOOSE i \in 1..Len(q) : q[i].id = id /\ \A j \in 1..(i - 1) : q[j].id # id
    ELSE 0

\* a sort that leaves the array as it is
sortByOrder_none(q) == q

\* Array.prototype.sort by display_order, which is stable
RECURSIVE sortByOrder(_)
sortByOrder(q) ==
    IF q = <<>> THEN <<>>
    ELSE LET n == Len(q)
             sorted == sortByOrder(SubSeq(q, 1, n - 1))
             k == Cardinality({i \in 1..(n - 1) :
                                  sorted[i].display_order <= q[n].display_order})
         IN SubSeq(sorted, 1, k) \o <<q[n]>> \o SubSeq(sorted, k + 1, n - 1)

dbCategoryToLocal(cat, spots) ==
    [id |-> cat.id, name |-> cat.name, expanded |-> cat.expanded,
     display_order |-> cat.display_order, spots |-> spots]

dbSpotToLocal(spot, spotTags) ==
    [id |-> spot.id, display_order |-> spot.display_order, tags |-> spotTags]

\* the sequences that hold each of the rows once, in ascending display_order:
\* the database settles the order of rows with equal display_order
orderedRows(rows) ==
    {q \in [1..Cardinality(rows) -> rows] :
        /\ \A i, j \in 1..Cardinality(rows) : i # j => q[i] # q[j]
        /\ \A i \in 1..(Cardinality(rows) - 1) :
              q[i].display_order <= q[i + 1].display_order}

\* createCategory of the client module: the insert, with the row it returns
createCategory(db, name, displayOrder) ==
    LET row == [id |-> db.lastCategoryId + 1, name |-> name,
                display_order |-> displayOrder, expanded |-> TRUE]
    IN [db |-> [db EXCEPT !.categories = @ \cup {row}, !.lastCategoryId = row.id],
        data |-> row]

\* updateCategory of the client module, with the rows it returns
updateCategory(db, id, field, value) ==
    LET changed(r) == IF field = "name" THEN [r EXCEPT !.name = value]
                      ELSE IF field = "expanded" THEN [r EXCEPT !.expanded = value]
                      ELSE [r EXCEPT !.display_order = value]
    IN [db |-> [db EXCEPT !.categories =
                   {IF r.id = id THEN changed(r) ELSE r : r \in db.categories}],
        data |-> {changed(r) : r \in {x \in db.categories : x.id = id}}]

\* deleteCategory of the client module, with the rows it deletes
deleteCategory(db, id) ==
    [db |-> [db EXCEPT !.categories = {r \in @ : r.id # id}],
     data |-> {r \in db.categories : r.id = id}]

\* the tags of a spot as getCategoriesWithSpots collects them, here in
\* ascending id
tagsOfSpot(db, spotId) ==
    LET joined == {g \in db.tags : [spot_id |-> spotId, tag_id |-> g.id] \in db.spot_tags}
        ids == SelectSeq([i \in 1..Cardinality(db.tags) |-> i],
                         LAMBDA i : \E g \in joined : g.id = i)
    IN [k \in 1..Len(ids) |-> CHOOSE g \in joined : g.id = ids[k]]

\* getCategoriesWithSpots, from the rows in the orders the selects return
getCategoriesWithSpots(db, cats, spots) ==
    LET local(s) == dbSpotToLocal(s, tagsOfSpot(db, s.id))
        loaded(c) == dbCategoryToLocal(c,
                        Map(SelectSeq(spots, LAMBDA s : s.category_id = c.id), local))
    IN Map(cats, loaded)

\* the module-level variables of the realtime client and of the store
\* module, as the modules' top-level code leaves them
ClientInit ==
    /\ categoriesChannel = Null
    /\ spotsChannel = Null
    /\ clientChannels = {}
    /\ channelsCreated = 0
    /\ unsubCats = <<>>
    /\ unsubSpots = <<>>
    /\ unsubscribers = {}

\* a database with no rows
EmptyDatabase ==
    [categories |-> {}, spots |-> {}, spot_tags |-> {}, tags |-> {},
     lastCategoryId |-> 0, lastSpotId |-> 0]

\* the tags store as loadTags sets it, here in ascending id
loadedTags(rows) ==
    Map(SelectSeq([i \in 1..Cardinality(rows) |-> i], LAMBDA i : \E g \in rows : g.id = i),
        LAMBDA i : CHOOSE g \in rows : g.id = i)

\* the stores over one of the given databases: as the store module's
\* top-level code creates them, or, where loaded, as a loadCategories that
\* ran alone has left them
StoreInit(databases, loaded) ==
    /\ database \in databases
    /\ IF loaded
       THEN /\ \E cats \in orderedRows(database.categories),
                  spots \in orderedRows(database.spots) :
                  categories = getCategoriesWithSpots(database, cats, spots)
            /\ tags = loadedTags(database.tags)
       ELSE /\ categories = <<>>
            /\ tags = <<>>
    /\ selectedTagFilter = Null
    /\ inFlight = <<>>
    /\ realtime = <<>>
    /\ callsMade = 0

InitWith(I) ==
    /\ children = [i \in 1..(I.initialCount + 1) |-> IF i = 1 THEN Deco ELSE i - 1]
    /\ options \in I.options
    /\ draggedElement = Null
    /\ draggedIndex = -1
    /\ ghostElement = <<>>
    /\ placeholder = Null
    /\ offsetY = 0
    /\ offsetX = 0
    /\ isDragging = FALSE
    /\ animationFrameId = Null
    /\ pendingDrag = <<>>
    /\ docListeners = <<>>
    /\ itemListeners = 1..I.initialCount
    /\ observing = TRUE
    /\ bodyGhosts = 0
    /\ itemStyle = [i \in Items |-> IF i = 1 THEN CustomStyle ELSE DefaultStyle]
    /\ bodyStyle = [userSelect |-> "", cursor |-> ""]
    /\ rafCallbacks = <<>>
    /\ onDropCalls = <<>>
    /\ sessionEnd = "none"
    /\ preDrag = <<>>
    /\ ClientInit
    /\ StoreInit(I.databases, I.loaded)

(***************************************************************************)
(* A step: the state s the handlers leave becomes the next state.  cause   *)
(* names the event; sessionEnd records it when it is one of the events     *)
(* that end a session and it arrives during one.  preDrag keeps what held  *)
(* at drag-start until the step after that event, and whether the items    *)
(* have been in another order since.                                       *)
(***************************************************************************)
EndingEvents == {"pointerup", "pointercancel", "disabled", "destroy"}

\* the children that carry data-draggable, in document order
DraggableOrder(ch) == SelectSeq(ch, LAMBDA e : e \in Items)

Step(s, cause) ==
    /\ UNCHANGED <<clientVars, dataVars>>
    /\ children' = s.children
    /\ options' = s.options
    /\ draggedElement' = s.draggedElement
    /\ draggedIndex' = s.draggedIndex
    /\ ghostElement' = s.ghostElement
    /\ placeholder' = s.placeholder
    /\ offsetY' = s.offsetY
    /\ offsetX' = s.offsetX
    /\ isDragging' = s.isDragging
    /\ animationFrameId' = s.animationFrameId
    /\ pendingDrag' = s.pendingDrag
    /\ docListeners' = s.docListeners
    /\ itemListeners' = s.itemListeners
    /\ observing' = s.observing
    /\ bodyGhosts' = s.bodyGhosts
    /\ itemStyle' = s.itemStyle
    /\ bodyStyle' = s.bodyStyle
    /\ rafCallbacks' = s.rafCallbacks
    /\ onDropCalls' = s.onDropCalls
    /\ sessionEnd' = IF isDragging /\ cause \in EndingEvents THEN cause ELSE "none"
    /\ preDrag' = IF ~isDragging /\ s.isDragging
                  THEN <<[item |-> s.draggedElement,
                          order |-> DraggableOrder(children),
                          style |-> itemStyle[s.draggedElement],
                          offsetY |-> pendingDrag[1].offsetY,
                          offsetX |-> pendingDrag[1].offsetX,
                          downY |-> pendingDrag[1].startY,
                          downX |-> pendingDrag[1].startX,
                          moved |-> FALSE]>>
                  ELSE IF isDragging
                  THEN <<[preDrag[1] EXCEPT
                            !.moved = @ \/ DraggableOrder(s.children) # preDrag[1].order]>>
                  ELSE <<>>

(***************************************************************************)
(* Events.  I is the record of the sets the events' inputs are drawn from. *)
(***************************************************************************)
\* the closures' elapsed times (0 stands in for the listeners that read none):
\* a closure attached earlier has waited longer
ElapsedFor(L) ==
    {el \in [1..Len(L) -> Elapsed \cup {0}] :
        /\ \A i \in 1..Len(L) : L[i].kind = "pending" => el[i] \in Elapsed
        /\ \A i \in 1..Len(L) : L[i].kind # "pending" => el[i] = 0
        /\ \A i \in 1..Len(L) : \A j \in i..Len(L) :
              L[i].kind = "pending" /\ L[j].kind = "pending" => el[i] >= el[j]}

\* A pointerdown reaches handlePointerDown through an item that is in the
\* container and has the listener; its target is in that item or in an
\* element with data-draggable nested in it.
PointerDown(I) ==
    /\ \E via \in itemListeners : Count(children, via) > 0
    /\ \E closest \in I.targets, target \in I.targetKinds, kind \in I.pointerKinds,
          scrollable \in I.scrollable, point \in I.downPoints :
        LET e == [closest |-> closest, interactive |-> target.interactive,
                  inHandle |-> target.inHandle, pointerType |-> kind.pointerType,
                  touchWindow |-> kind.touchWindow, scrollable |-> scrollable,
                  point |-> point]
            s == handlePointerDown(State, e)
        IN /\ closest \in Items => closest \in itemListeners /\ Count(children, closest) > 0
           /\ PendingCount(s.docListeners) <= I.closures
           /\ Step(observerCallback(State, s), "pointerdown")

PointerMove(I) ==
    /\ docListeners # <<>>
    /\ \E p \in (IF pendingDrag # <<>> THEN I.pendingPoints ELSE I.dragPoints),
          el \in ElapsedFor(docListeners), throws \in I.captureThrows :
        LET s0 == [State EXCEPT !.captureThrows = throws]
        IN Step(observerCallback(State, dispatchMove(s0, docListeners, 1, 0, p, el)),
                "pointermove")

PointerUp ==
    /\ docListeners # <<>>
    /\ Step(observerCallback(State, dispatchUp(State, docListeners, 1, 0, "pointerup")),
            "pointerup")

PointerCancel ==
    /\ DragAttached(docListeners)
    /\ Step(observerCallback(State, dispatchUp(State, docListeners, 1, 0, "pointercancel")),
            "pointercancel")

\* the browser runs the next queued frame callback
AnimationFrame(I) ==
    /\ rafCallbacks # <<>>
    /\ \E env \in I.frameEnvs :
        LET s0 == [State EXCEPT !.rafCallbacks = Tail(@)]
        IN Step(observerCallback(State, frameCallback(s0, Head(rafCallbacks), env)), "frame")

\* the caller reconfigures the action
Update(I) ==
    /\ observing
    /\ \E newOptions \in I.options :
        Step(observerCallback(State, update(State, newOptions)),
             IF newOptions.disabled THEN "disabled" ELSE "update")

\* the page appends to the container a draggable item it did not hold
AddChild ==
    \E item \in Items :
        /\ Count(children, item) = 0
        /\ Step(observerCallback(State, [State EXCEPT !.children = Append(@, item)]),
                "childadded")

\* the page removes from the container a draggable item that is not being
\* dragged
RemoveChild ==
    \E item \in Items :
        /\ Count(children, item) > 0
        /\ item # draggedElement
        /\ Step(observerCallback(State, [State EXCEPT !.children = RemoveNode(@, item)]),
                "childremoved")

\* the caller tears the action down
Destroy ==
    /\ observing
    /\ Step(destroy(State), "destroy")

(***************************************************************************)
(* Input sets.                                                             *)
(***************************************************************************)
PointerKinds ==
    {[pointerType |-> "mouse", touchWindow |-> FALSE],
     [pointerType |-> "pen", touchWindow |-> FALSE],
     [pointerType |-> "touch", touchWindow |-> FALSE],
     [pointerType |-> "mouse", touchWindow |-> TRUE]}

\* what the pointer-down's target is: plain content of the item, a control
\* inside it, the item itself being a control, content of the handle, a
\* control that is (or is inside) the handle
TargetKinds ==
    {[interactive |-> "none", inHandle |-> FALSE],
     [interactive |-> "inner", inHandle |-> FALSE],
     [interactive |-> "item", inHandle |-> FALSE],
     [interactive |-> "none", inHandle |-> TRUE],
     [interactive |-> "inner", inHandle |-> TRUE]}

HoverEnvs ==
    {[horizontal |-> hz, hovered |-> h, rect |-> r, firstRect |-> r, lastRect |-> r] :
        hz \in BOOLEAN, h \in Items \cup {Nested}, r \in HoverRects}

EdgeEnvs ==
    {[horizontal |-> hz, hovered |-> Null, rect |-> r.first, firstRect |-> r.first,
      lastRect |-> r.last] : hz \in BOOLEAN, r \in EdgeRects}

PointsAt(deltas) == {[x |-> 40 + dx, y |-> 40 + dy] : dx \in deltas, dy \in deltas}

\* The controller with mouse input, no handle selector, every layout the
\* position update may find and every order of the caller's calls.
DragInputs ==
    [options |-> [disabled : BOOLEAN, handle : {FALSE}],
     targets |-> Items,
     targetKinds |-> {k \in TargetKinds : ~k.inHandle /\ k.interactive # "item"},
     pointerKinds |-> {k \in PointerKinds : k.pointerType = "mouse" /\ ~k.touchWindow},
     scrollable |-> {FALSE},
     downPoints |-> {[x |-> 40, y |-> 40]},
     closures |-> DragClosures,
     pendingPoints |-> PointsAt({7, 8}),
     dragPoints |-> {DragPoint},
     frameEnvs |-> HoverEnvs \cup EdgeEnvs,
     captureThrows |-> {FALSE},
     initialCount |-> NItems,
     databases |-> {EmptyDatabase},
     loaded |-> FALSE]

Init == InitWith(DragInputs)

Next ==
    \/ PointerDown(DragInputs)
    \/ PointerMove(DragInputs)
    \/ PointerUp
    \/ PointerCancel
    \/ AnimationFrame(DragInputs)
    \/ Update(DragInputs)
    \/ Destroy

Spec == Init /\ [][Next]_vars

\* The gesture phase: every pointer kind and target, scrollable and
\* non-scrollable containers, a handle selector set or not.  The caller
\* leaves the controller enabled and the browser runs no frame callback.
GestureInputs ==
    [options |-> [disabled : {FALSE}, handle : BOOLEAN],
     targets |-> {1, Nested},
     targetKinds |-> TargetKinds,
     pointerKinds |-> PointerKinds,
     scrollable |-> BOOLEAN,
     downPoints |-> DownPoints,
     closures |-> MaxClosures,
     pendingPoints |-> PointsAt(Deltas),
     dragPoints |-> {DragPoint},
     frameEnvs |-> {},
     captureThrows |-> {FALSE},
     initialCount |-> NItems,
     databases |-> {EmptyDatabase},
     loaded |-> FALSE]

InitGesture == InitWith(GestureInputs)

NextGesture ==
    \/ PointerDown(GestureInputs)
    \/ PointerMove(GestureInputs)
    \/ PointerUp
    \/ PointerCancel
    \/ Update(GestureInputs)

SpecGesture == InitGesture /\ [][NextGesture]_vars

\* The controller as in DragInputs, on a page where setPointerCapture may
\* throw (a pointer id that is not active, an item that is not connected).
\* The browser runs no frame callback.
CaptureInputs ==
    [DragInputs EXCEPT !.frameEnvs = {}, !.captureThrows = BOOLEAN]

InitCapture == InitWith(CaptureInputs)

NextCapture ==
    \/ PointerDown(CaptureInputs)
    \/ PointerMove(CaptureInputs)
    \/ PointerUp
    \/ PointerCancel
    \/ Update(CaptureInputs)
    \/ Destroy

SpecCapture == InitCapture /\ [][NextCapture]_vars

\* The controller as in DragInputs on a container that starts with one item
\* fewer; the page adds the missing one at any time.
ObserverInputs ==
    [DragInputs EXCEPT !.frameEnvs = EdgeEnvs, !.initialCount = NItems - 1]

InitObserver == InitWith(ObserverInputs)

NextObserver ==
    \/ PointerDown(ObserverInputs)
    \/ PointerMove(ObserverInputs)
    \/ PointerUp
    \/ PointerCancel
    \/ AnimationFrame(ObserverInputs)
    \/ Update(ObserverInputs)
    \/ Destroy
    \/ AddChild

SpecObserver == InitObserver /\ [][NextObserver]_vars

\* The enabled controller as in DragInputs, with the pointer at the edges of
\* the list, on a page that removes items at any time.
MutationInputs ==
    [DragInputs EXCEPT !.options = [disabled : {FALSE}, handle : {FALSE}],
                       !.frameEnvs = EdgeEnvs]

InitMutation == InitWith(MutationInputs)

NextMutation ==
    \/ PointerDown(MutationInputs)
    \/ PointerMove(MutationInputs)
    \/ PointerUp
    \/ PointerCancel
    \/ AnimationFrame(MutationInputs)
    \/ RemoveChild

SpecMutation == InitMutation /\ [][NextMutation]_vars

(***************************************************************************)
(* The realtime client.  A channel is [id, table, callback]: callback is   *)
(* "store" for the handlers of the store module and "other" for any other  *)
(* caller's.  The closure a subscribe call returns is [table, channel]:    *)
(* channel is the id of the channel that call created, which the closure's *)
(* code never reads.                                                       *)
(***************************************************************************)
MaxChannels == 4

Client ==
    [categoriesChannel |-> categoriesChannel, spotsChannel |-> spotsChannel,
     clientChannels |-> clientChannels, channelsCreated |-> channelsCreated]

\* a removeChannel that leaves the channel registered
removeChannel_keeps(chs, id) == chs

\* supabase.removeChannel(channel)
removeChannel(chs, id) == {ch \in chs : ch.id # id}

\* the value of the module variable named after the table
channelOf(c, table) ==
    IF table = "categories" THEN c.categoriesChannel ELSE c.spotsChannel

setChannel(c, table, id) ==
    IF table = "categories" THEN [c EXCEPT !.categoriesChannel = id]
    ELSE [c EXCEPT !.spotsChannel = id]

\* subscribeToCategories and subscribeToSpots, which differ in the table only
subscribeTo(c, table, callback) ==
    LET kept == IF channelOf(c, table) # Null
                THEN removeChannel(c.clientChannels, channelOf(c, table))
                ELSE c.clientChannels
        id == c.channelsCreated + 1
    IN [setChannel(c, table, id) EXCEPT
          !.clientChannels = kept \cup {[id |-> id, table |-> table, callback |-> callback]},
          !.channelsCreated = id]

subscribeToCategories(c, callback) == subscribeTo(c, "categories", callback)

subscribeToSpots(c, callback) == subscribeTo(c, "spots", callback)

\* the closure the last subscribeTo call for the table returned
returnedUnsubscribe(c, table) == [table |-> table, channel |-> channelOf(c, table)]

\* the body of a returned closure: it reads the module variable
unsubscribe(c, u) ==
    IF channelOf(c, u.table) # Null
    THEN [setChannel(c, u.table, Null) EXCEPT
            !.clientChannels = removeChannel(c.clientChannels, channelOf(c, u.table))]
    ELSE c

unsubscribeAll(c) ==
    unsubscribe(unsubscribe(c, [table |-> "categories", channel |-> Null]),
                [table |-> "spots", channel |-> Null])

ClientStep(c) ==
    /\ categoriesChannel' = c.categoriesChannel
    /\ spotsChannel' = c.spotsChannel
    /\ clientChannels' = c.clientChannels
    /\ channelsCreated' = c.channelsCreated

\* a caller other than the store module subscribes and keeps the closure
SubscribeToCategories ==
    /\ channelsCreated < MaxChannels
    /\ LET c == subscribeToCategories(Client, "other")
       IN /\ ClientStep(c)
          /\ unsubscribers' = unsubscribers \cup {returnedUnsubscribe(c, "categories")}
    /\ UNCHANGED <<unsubCats, unsubSpots, dataVars, dragVars>>

SubscribeToSpots ==
    /\ channelsCreated < MaxChannels
    /\ LET c == subscribeToSpots(Client, "other")
       IN /\ ClientStep(c)
          /\ unsubscribers' = unsubscribers \cup {returnedUnsubscribe(c, "spots")}
    /\ UNCHANGED <<unsubCats, unsubSpots, dataVars, dragVars>>

\* a caller invokes a closure it kept, at any time and any number of times
Unsubscribe ==
    \E u \in unsubscribers :
        /\ ClientStep(unsubscribe(Client, u))
        /\ UNCHANGED <<unsubCats, unsubSpots, unsubscribers, dataVars, dragVars>>

UnsubscribeAll ==
    /\ ClientStep(unsubscribeAll(Client))
    /\ UNCHANGED <<unsubCats, unsubSpots, unsubscribers, dataVars, dragVars>>

\* setupRealtimeSubscriptions of the store module
SetupRealtimeSubscriptions ==
    /\ channelsCreated + 2 <= MaxChannels
    /\ LET c1 == subscribeToCategories(Client, "store")
           c2 == subscribeToSpots(c1, "store")
       IN /\ ClientStep(c2)
          /\ unsubCats' = <<returnedUnsubscribe(c1, "categories")>>
          /\ unsubSpots' = <<returnedUnsubscribe(c2, "spots")>>
    /\ UNCHANGED <<unsubscribers, dataVars, dragVars>>

\* cleanupRealtimeSubscriptions of the store module
cleanupClient(c) ==
    LET c1 == IF unsubCats # <<>> THEN unsubscribe(c, unsubCats[1]) ELSE c
        c2 == IF unsubSpots # <<>> THEN unsubscribe(c1, unsubSpots[1]) ELSE c1
    IN unsubscribeAll(c2)

CleanupRealtimeSubscriptions ==
    /\ ClientStep(cleanupClient(Client))
    /\ unsubCats' = <<>>
    /\ unsubSpots' = <<>>
    /\ UNCHANGED <<unsubscribers, dataVars, dragVars>>

\* the controller at rest, for the specifications of the store and client
IdleInputs ==
    [DragInputs EXCEPT !.options = {[disabled |-> FALSE, handle |-> FALSE]}]

InitIdle == InitWith(IdleInputs)

NextChannels ==
    \/ SubscribeToCategories
    \/ SubscribeToSpots
    \/ Unsubscribe
    \/ UnsubscribeAll
    \/ SetupRealtimeSubscriptions
    \/ CleanupRealtimeSubscriptions

SpecChannels == InitIdle /\ [][NextChannels]_vars

(***************************************************************************)
(* The store functions and the callbacks of the store's channels.          *)
(***************************************************************************)
\* the store's channel for a table, if one is registered
storeChannels(table) ==
    {ch \in clientChannels : ch.table = table /\ ch.callback = "store"}

\* the database's change events reach the store's channel in commit order
emit(q, table, eventType, rows) ==
    IF storeChannels(table) = {} \/ rows = {} THEN q
    ELSE q \o <<[channel |-> (CHOOSE ch \in storeChannels(table) : TRUE).id,
                 table |-> table, eventType |-> eventType,
                 row |-> CHOOSE r \in rows : TRUE]>>

\* the callback setupRealtimeSubscriptions gives subscribeToCategories
onCategoriesChange(cats, eventType, row) ==
    CASE eventType = "INSERT" ->
            IF Find(cats, row.id) = 0
            THEN sortByOrder(Append(cats, dbCategoryToLocal(row, <<>>)))
            ELSE cats
      [] eventType = "UPDATE" ->
            LET changed(c) == IF c.id = row.id
                              THEN [c EXCEPT !.name = row.name,
                                             !.expanded = row.expanded,
                                             !.display_order = row.display_order]
                              ELSE c
            IN sortByOrder(Map(cats, changed))
      [] OTHER -> SelectSeq(cats, LAMBDA c : c.id # row.id)

\* the first default name from position i on that existingNames lacks, or
\* the position after the last
nextMissingDefault(i, existingNames) ==
    IF \E k \in i..Len(DEFAULT_CATEGORIES) :
          toLowerCase(DEFAULT_CATEGORIES[k]) \notin existingNames
    THEN CHOOSE k \in i..Len(DEFAULT_CATEGORIES) :
            /\ toLowerCase(DEFAULT_CATEGORIES[k]) \notin existingNames
            /\ \A j \in i..(k - 1) : toLowerCase(DEFAULT_CATEGORIES[j]) \in existingNames
    ELSE Len(DEFAULT_CATEGORIES) + 1

\* the end of ensureDefaultCategories
addDefaults(cats, newCategories) ==
    IF newCategories # <<>> THEN sortByOrder(cats \o newCategories) ELSE cats

\* the end of addCategory
addCategoryDone(cats, data) == sortByOrder(Append(cats, dbCategoryToLocal(data, <<>>)))

\* loadCategories up to its first await: the selects of getCategoriesWithSpots
LoadCategories ==
    /\ CallMade
    /\ \E cats \in orderedRows(database.categories), spots \in orderedRows(database.spots) :
          inFlight' = Append(inFlight,
                             [op |-> "loadCategories",
                              data |-> getCategoriesWithSpots(database, cats, spots)])
    /\ UNCHANGED <<categories, tags, selectedTagFilter, database, realtime,
                   clientVars, dragVars>>

\* ensureDefaultCategories from position i of the loop to its next await, or
\* to its end and on to the await of loadTags; created is newCategories
ensureDefaultsFrom(p, i, existingNames, created, ok) ==
    LET k == nextMissingDefault(i, existingNames)
    IN IF k <= Len(DEFAULT_CATEGORIES)
       THEN LET res == createCategory(database, DEFAULT_CATEGORIES[k], k - 1)
            IN /\ database' = IF ok THEN res.db ELSE database
               /\ realtime' = IF ok THEN emit(realtime, "categories", "INSERT", {res.data})
                              ELSE realtime
               /\ inFlight' = [inFlight EXCEPT ![p] =
                                 [op |-> "ensureDefaultCategories",
                                  data |-> [i |-> k, existingNames |-> existingNames,
                                            newCategories |-> created,
                                            result |-> IF ok THEN <<res.data>> ELSE <<>>]]]
               /\ UNCHANGED categories
       ELSE /\ categories' = addDefaults(categories, created)
            /\ inFlight' = [inFlight EXCEPT ![p] = [op |-> "loadTags", data |-> database.tags]]
            /\ UNCHANGED <<database, realtime>>

\* the insert succeeds, or fails where failures is {FALSE}; it fails when the
\* table is full
insertOutcomes(failures) ==
    IF database.lastCategoryId < MaxCategories THEN {TRUE} \cup failures ELSE {FALSE}

\* loadCategories after getCategoriesWithSpots, into ensureDefaultCategories
CategoriesLoaded(failures) ==
    \E p \in 1..Len(inFlight), ok \in insertOutcomes(failures) :
        /\ inFlight[p].op = "loadCategories"
        /\ LET loaded == inFlight[p].data
               existingNames == {toLowerCase(loaded[i].name) : i \in 1..Len(loaded)}
               k == nextMissingDefault(1, existingNames)
           IN IF k <= Len(DEFAULT_CATEGORIES)
              THEN LET res == createCategory(database, DEFAULT_CATEGORIES[k], k - 1)
                   IN /\ categories' = loaded
                      /\ database' = IF ok THEN res.db ELSE database
                      /\ realtime' = IF ok
                                     THEN emit(realtime, "categories", "INSERT", {res.data})
                                     ELSE realtime
                      /\ inFlight' = [inFlight EXCEPT ![p] =
                                        [op |-> "ensureDefaultCategories",
                                         data |-> [i |-> k, existingNames |-> existingNames,
                                                   newCategories |-> <<>>,
                                                   result |-> IF ok THEN <<res.data>>
                                                              ELSE <<>>]]]
              ELSE /\ categories' = loaded
                   /\ inFlight' = [inFlight EXCEPT ![p] =
                                          [op |-> "loadTags", data |-> database.tags]]
                   /\ UNCHANGED <<database, realtime>>
        /\ UNCHANGED <<tags, selectedTagFilter, callsMade, clientVars,
                       dragVars>>

\* ensureDefaultCategories after an await of createCategoryInDb
DefaultCreated(failures) ==
    \E p \in 1..Len(inFlight), ok \in insertOutcomes(failures) :
        /\ inFlight[p].op = "ensureDefaultCategories"
        /\ LET d == inFlight[p].data
               created == d.newCategories
                            \o Map(d.result, LAMBDA row : dbCategoryToLocal(row, <<>>))
           IN ensureDefaultsFrom(p, d.i + 1, d.existingNames, created, ok)
        /\ UNCHANGED <<tags, selectedTagFilter, callsMade, clientVars,
                       dragVars>>

\* loadTags after getTagsFromDb, and the end of loadCategories
TagsLoaded ==
    \E p \in 1..Len(inFlight) :
        /\ inFlight[p].op = "loadTags"
        /\ tags' = loadedTags(inFlight[p].data)
        /\ inFlight' = RemoveAt(inFlight, p)
        /\ UNCHANGED <<categories, selectedTagFilter, database, realtime,
                       callsMade, clientVars,
                       dragVars>>

\* addCategory up to its await
AddCategory(names) ==
    \E name \in names :
        /\ CallMade
        /\ database.lastCategoryId < MaxCategories
        /\ LET res == createCategory(database, name, Len(categories))
           IN /\ database' = res.db
              /\ realtime' = emit(realtime, "categories", "INSERT", {res.data})
              /\ inFlight' = Append(inFlight, [op |-> "addCategory", data |-> res.data])
        /\ UNCHANGED <<categories, tags, selectedTagFilter, clientVars, dragVars>>

\* addCategory after its await
CategoryAdded ==
    \E p \in 1..Len(inFlight) :
        /\ inFlight[p].op = "addCategory"
        /\ categories' = addCategoryDone(categories, inFlight[p].data)
        /\ inFlight' = RemoveAt(inFlight, p)
        /\ UNCHANGED <<tags, selectedTagFilter, database, realtime, callsMade, clientVars,
                       dragVars>>

\* removeCategory up to its await, for a category the page shows
RemoveCategory ==
    \E c \in 1..Len(categories) :
        /\ CallMade
        /\ LET res == deleteCategory(database, categories[c].id)
           IN /\ database' = res.db
              /\ realtime' = emit(realtime, "categories", "DELETE", res.data)
        /\ inFlight' = Append(inFlight, [op |-> "removeCategory", data |-> categories[c].id])
        /\ UNCHANGED <<categories, tags, selectedTagFilter, clientVars, dragVars>>

\* removeCategory after its await
CategoryRemoved ==
    \E p \in 1..Len(inFlight) :
        /\ inFlight[p].op = "removeCategory"
        /\ categories' = SelectSeq(categories, LAMBDA c : c.id # inFlight[p].data)
        /\ inFlight' = RemoveAt(inFlight, p)
        /\ UNCHANGED <<tags, selectedTagFilter, database, realtime, callsMade, clientVars,
                       dragVars>>

\* toggleCategoryExpanded up to its await
ToggleCategoryExpanded ==
    \E c \in 1..Len(categories) :
        /\ CallMade
        /\ LET id == categories[c].id
               newExpanded == ~categories[Find(categories, id)].expanded
               res == updateCategory(database, id, "expanded", newExpanded)
           IN /\ database' = res.db
              /\ realtime' = emit(realtime, "categories", "UPDATE", res.data)
              /\ inFlight' = Append(inFlight,
                                    [op |-> "toggleCategoryExpanded",
                                     data |-> [id |-> id, newExpanded |-> newExpanded]])
        /\ UNCHANGED <<categories, tags, selectedTagFilter, clientVars, dragVars>>

\* toggleCategoryExpanded after its await
CategoryToggled ==
    \E p \in 1..Len(inFlight) :
        /\ inFlight[p].op = "toggleCategoryExpanded"
        /\ LET d == inFlight[p].data
           IN categories' = Map(categories,
                                LAMBDA c : IF c.id = d.id
                                           THEN [c EXCEPT !.expanded = d.newExpanded] ELSE c)
        /\ inFlight' = RemoveAt(inFlight, p)
        /\ UNCHANGED <<tags, selectedTagFilter, database, realtime, callsMade, clientVars,
                       dragVars>>

\* updateCategoryName up to its await; it throws on a blank name
UpdateCategoryName(names) ==
    \E c \in 1..Len(categories), newName \in names :
        /\ CallMade
        /\ trim(newName) # ""
        /\ LET id == categories[c].id
               res == updateCategory(database, id, "name", trim(newName))
           IN /\ database' = res.db
              /\ realtime' = emit(realtime, "categories", "UPDATE", res.data)
              /\ inFlight' = Append(inFlight,
                                    [op |-> "updateCategoryName",
                                     data |-> [id |-> id, name |-> trim(newName)]])
        /\ UNCHANGED <<categories, tags, selectedTagFilter, clientVars, dragVars>>

\* updateCategoryName after its await
CategoryRenamed ==
    \E p \in 1..Len(inFlight) :
        /\ inFlight[p].op = "updateCategoryName"
        /\ LET d == inFlight[p].data
           IN categories' = Map(categories,
                                LAMBDA c : IF c.id = d.id
                                           THEN [c EXCEPT !.name = d.name] ELSE c)
        /\ inFlight' = RemoveAt(inFlight, p)
        /\ UNCHANGED <<tags, selectedTagFilter, database, realtime, callsMade, clientVars,
                       dragVars>>

\* updateCategoryOrder, which has no code after its await
UpdateCategoryOrder ==
    \E c \in 1..Len(categories), newOrder \in 0..Len(categories) :
        /\ categories[c].display_order # newOrder
        /\ CallMade
        /\ LET res == updateCategory(database, categories[c].id, "display_order", newOrder)
           IN /\ database' = res.db
              /\ realtime' = emit(realtime, "categories", "UPDATE", res.data)
        /\ UNCHANGED <<categories, tags, selectedTagFilter, inFlight, clientVars, dragVars>>

\* the oldest undelivered event reaches its channel's callback, if the
\* channel is still registered
DeliverCategoriesChange ==
    /\ realtime # <<>>
    /\ Head(realtime).table = "categories"
    /\ realtime' = Tail(realtime)
    /\ categories' = IF \E ch \in clientChannels : ch.id = Head(realtime).channel
                     THEN onCategoriesChange(categories, Head(realtime).eventType,
                                             Head(realtime).row)
                     ELSE categories
    /\ UNCHANGED <<tags, selectedTagFilter, database, inFlight, callsMade, clientVars,
                       dragVars>>

NextCategories ==
    \/ SetupRealtimeSubscriptions
    \/ LoadCategories
    \/ CategoriesLoaded({})
    \/ DefaultCreated({})
    \/ TagsLoaded
    \/ AddCategory({"favourite"})
    \/ CategoryAdded
    \/ RemoveCategory
    \/ CategoryRemoved
    \/ ToggleCategoryExpanded
    \/ CategoryToggled
    \/ UpdateCategoryName({"  ", "Cafes "})
    \/ CategoryRenamed
    \/ UpdateCategoryOrder
    \/ DeliverCategoriesChange

SpecCategories == InitIdle /\ [][NextCategories]_vars

\* The calls that insert categories, with inserts that may fail, against the
\* events of the rows they insert.
NextInsert ==
    \/ SetupRealtimeSubscriptions
    \/ LoadCategories
    \/ CategoriesLoaded({FALSE})
    \/ DefaultCreated({FALSE})
    \/ TagsLoaded
    \/ AddCategory({"favourite"})
    \/ CategoryAdded
    \/ DeliverCategoriesChange

SpecInsert == InitIdle /\ [][NextInsert]_vars

(***************************************************************************)
(* Spots and tags.  A store spot keeps of a row what the functions here    *)
(* read: id, display_order and tags; a tag is [id].                        *)
(***************************************************************************)
NSpots == 3
NTags == 2

\* a database with the two default categories as an earlier session has
\* left them, n spots dealt to the categories in turn, each at the end of its
\* list, NTags tags and the given tags on the spots
SeedDatabase(n, spotTags) ==
    [categories |-> {[id |-> k, name |-> DEFAULT_CATEGORIES[k],
                      display_order |-> k - 1, expanded |-> TRUE] :
                        k \in 1..Len(DEFAULT_CATEGORIES)},
     spots |-> {[id |-> i, category_id |-> 1 + (i % 2),
                 display_order |-> (i - 1) \div 2] : i \in 1..n},
     spot_tags |-> spotTags,
     tags |-> {[id |-> g] : g \in 1..NTags},
     lastCategoryId |-> Len(DEFAULT_CATEGORIES), lastSpotId |-> n]

\* createSpot of the client module: the insert, with the row it returns
createSpot(db, categoryId, displayOrder) ==
    LET row == [id |-> db.lastSpotId + 1, category_id |-> categoryId,
                display_order |-> displayOrder]
    IN [db |-> [db EXCEPT !.spots = @ \cup {row}, !.lastSpotId = row.id], data |-> row]

\* the end of addSpot
addSpotDone(cats, categoryId, data) ==
    Map(cats, LAMBDA c : IF c.id = categoryId
                         THEN [c EXCEPT !.spots =
                                  sortByOrder(Append(@, dbSpotToLocal(data, <<>>)))]
                         ELSE c)

\* the callback setupRealtimeSubscriptions gives subscribeToSpots
onSpotsChange(cats, eventType, row) ==
    CASE eventType = "INSERT" ->
            Map(cats, LAMBDA c :
                IF c.id = row.category_id /\ Find(c.spots, row.id) = 0
                THEN [c EXCEPT !.spots = sortByOrder(Append(@, dbSpotToLocal(row, <<>>)))]
                ELSE c)
      [] eventType = "UPDATE" ->
            Map(cats, LAMBDA c :
                [c EXCEPT !.spots =
                    sortByOrder(Map(@, LAMBDA s :
                        IF s.id = row.id
                        THEN [s EXCEPT !.display_order = row.display_order]
                        ELSE s))])
      [] OTHER ->
            Map(cats, LAMBDA c :
                [c EXCEPT !.spots = SelectSeq(@, LAMBDA s : s.id # row.id)])

\* addSpot up to its await, for a category the page shows
AddSpot ==
    \E c \in 1..Len(categories) :
        /\ CallMade
        /\ database.lastSpotId < NSpots
        /\ \E r \in database.categories : r.id = categories[c].id
        /\ LET category == categories[Find(categories, categories[c].id)]
               res == createSpot(database, category.id, Len(category.spots))
           IN /\ database' = res.db
              /\ realtime' = emit(realtime, "spots", "INSERT", {res.data})
              /\ inFlight' = Append(inFlight,
                                    [op |-> "addSpot",
                                     data |-> [categoryId |-> category.id,
                                               row |-> res.data]])
        /\ UNCHANGED <<categories, tags, selectedTagFilter, clientVars, dragVars>>

\* addSpot after its await
SpotAdded ==
    \E p \in 1..Len(inFlight) :
        /\ inFlight[p].op = "addSpot"
        /\ categories' = addSpotDone(categories, inFlight[p].data.categoryId,
                                     inFlight[p].data.row)
        /\ inFlight' = RemoveAt(inFlight, p)
        /\ UNCHANGED <<tags, selectedTagFilter, database, realtime, callsMade, clientVars,
                       dragVars>>

\* the spots of the store, category after category
allSpots(cats) ==
    LET RECURSIVE flat(_)
        flat(i) == IF i > Len(cats) THEN <<>> ELSE cats[i].spots \o flat(i + 1)
    IN flat(1)

\* updateSpotOrder, which has no code after its await
UpdateSpotOrder ==
    \E s \in 1..Len(allSpots(categories)), newOrder \in {0, NSpots} :
        /\ CallMade
        /\ LET id == allSpots(categories)[s].id
               rows == {[r EXCEPT !.display_order = newOrder] :
                           r \in {x \in database.spots : x.id = id}}
           IN /\ database' = [database EXCEPT !.spots =
                                 {x \in @ : x.id # id} \cup rows]
              /\ realtime' = emit(realtime, "spots", "UPDATE", rows)
        /\ UNCHANGED <<categories, tags, selectedTagFilter, inFlight, clientVars, dragVars>>

\* the oldest undelivered event reaches its channel's callback, if the
\* channel is still registered
DeliverSpotsChange ==
    /\ realtime # <<>>
    /\ Head(realtime).table = "spots"
    /\ realtime' = Tail(realtime)
    /\ categories' = IF \E ch \in clientChannels : ch.id = Head(realtime).channel
                     THEN onSpotsChange(categories, Head(realtime).eventType,
                                        Head(realtime).row)
                     ELSE categories
    /\ UNCHANGED <<tags, selectedTagFilter, database, inFlight, callsMade, clientVars,
                   dragVars>>

\* The stores loaded from a database with the default categories and one
\* spot.
InitSpots ==
    InitWith([IdleInputs EXCEPT !.databases = {SeedDatabase(1, {})}, !.loaded = TRUE])

NextSpots ==
    \/ SetupRealtimeSubscriptions
    \/ AddSpot
    \/ SpotAdded
    \/ UpdateSpotOrder
    \/ DeliverSpotsChange

SpecSpots == InitSpots /\ [][NextSpots]_vars

\* a map that appends the tag without looking for it
attachTag_unchecked(cats, spotId, tag) ==
    Map(cats, LAMBDA c :
        [c EXCEPT !.spots = Map(@, LAMBDA s : IF s.id = spotId
                                              THEN [s EXCEPT !.tags = Append(@, tag)]
                                              ELSE s)])

\* the categories.update of addTagToSpot, the same on the duplicate-key path
\* and after a successful insert
attachTag(cats, spotId, tag) ==
    Map(cats, LAMBDA c :
        [c EXCEPT !.spots = Map(@, LAMBDA s :
            IF s.id = spotId /\ Find(s.tags, tag.id) = 0
            THEN [s EXCEPT !.tags = Append(@, tag)]
            ELSE s)])

\* the store holds the spot with the tag on it
hasTag(cats, spotId, tagId) ==
    /\ Find(allSpots(cats), spotId) # 0
    /\ Find(allSpots(cats)[Find(allSpots(cats), spotId)].tags, tagId) # 0

\* addTagToSpot of the store up to the await, and the select that
\* addTagToSpot of the client module starts with
AddTagToSpot ==
    \E spotId \in 1..NSpots, tagId \in 1..NTags :
        /\ CallMade
        /\ inFlight' =
              IF hasTag(categories, spotId, tagId) THEN inFlight
              ELSE Append(inFlight,
                          [op |-> "addTagToSpot",
                           data |-> [spotId |-> spotId, tagId |-> tagId,
                                     result |->
                                        IF [spot_id |-> spotId, tag_id |-> tagId]
                                              \in database.spot_tags
                                        THEN "existing" ELSE "selected"]])
        /\ UNCHANGED <<categories, tags, selectedTagFilter, database, realtime,
                       clientVars, dragVars>>

\* the insert of addTagToSpot of the client module: the unique constraint
\* and the foreign keys reject the row or the table takes it
InsertSpotTag ==
    \E p \in 1..Len(inFlight) :
        /\ inFlight[p].op = "addTagToSpot"
        /\ inFlight[p].data.result = "selected"
        /\ LET d == inFlight[p].data
               row == [spot_id |-> d.spotId, tag_id |-> d.tagId]
               result == IF row \in database.spot_tags THEN "duplicate"
                         ELSE IF \E s \in database.spots : s.id = d.spotId
                         THEN "inserted" ELSE "error"
           IN /\ database' = IF result = "inserted"
                             THEN [database EXCEPT !.spot_tags = @ \cup {row}]
                             ELSE database
              /\ inFlight' = [inFlight EXCEPT ![p] =
                                     [op |-> "addTagToSpot",
                                      data |-> [d EXCEPT !.result = result]]]
        /\ UNCHANGED <<categories, tags, selectedTagFilter, realtime, callsMade,
                       clientVars, dragVars>>

\* addTagToSpot of the store after its await
TagAdded ==
    \E p \in 1..Len(inFlight) :
        /\ inFlight[p].op = "addTagToSpot"
        /\ inFlight[p].data.result # "selected"
        /\ LET d == inFlight[p].data
           IN categories' = IF d.result # "error" /\ Find(tags, d.tagId) # 0
                            THEN attachTag(categories, d.spotId, tags[Find(tags, d.tagId)])
                            ELSE categories
        /\ inFlight' = RemoveAt(inFlight, p)
        /\ UNCHANGED <<tags, selectedTagFilter, database, realtime, callsMade, clientVars,
                       dragVars>>

\* The stores loaded from a database with all but one of the spots, one of
\* them tagged or none.
InitTags ==
    InitWith([IdleInputs EXCEPT
                !.databases = {SeedDatabase(NSpots - 1, st) :
                                  st \in {{}, {[spot_id |-> 1, tag_id |-> 1]}}},
                !.loaded = TRUE])

NextTags ==
    \/ LoadCategories
    \/ CategoriesLoaded({})
    \/ TagsLoaded
    \/ AddTagToSpot
    \/ InsertSpotTag
    \/ TagAdded

SpecTags == InitTags /\ [][NextTags]_vars

\* a filter that keeps the categories it has emptied
filteredCategories_keepsEmpty(cats, filter) ==
    IF filter = Null THEN cats
    ELSE Map(cats, LAMBDA c :
            [c EXCEPT !.spots = SelectSeq(@, LAMBDA s : Find(s.tags, filter) # 0)])

\* the derived store filteredCategories
filteredCategories(cats, filter) ==
    IF filter = Null THEN cats
    ELSE SelectSeq(Map(cats, LAMBDA c :
                      [c EXCEPT !.spots = SelectSeq(@, LAMBDA s : Find(s.tags, filter) # 0)]),
                   LAMBDA c : Len(c.spots) > 0)

\* setTagFilter, with null, a tag or the id of no tag
SetTagFilter ==
    \E tagId \in {Null} \cup 1..(NTags + 1) :
        /\ selectedTagFilter' = tagId
        /\ UNCHANGED <<categories, tags, database, inFlight, realtime, callsMade,
                       clientVars, dragVars>>

\* The stores loaded from a database with any tags on its spots.
InitFilter ==
    InitWith([IdleInputs EXCEPT
                !.databases = {SeedDatabase(NSpots, st) :
                                  st \in SUBSET [spot_id : 1..NSpots, tag_id : 1..NTags]},
                !.loaded = TRUE])

NextFilter == SetTagFilter

SpecFilter == InitFilter /\ [][NextFilter]_vars

(***************************************************************************)
(* Properties.  A session is the span from the step that sets isDragging   *)
(* to the event that ends it; sessionEnd names that event in the state it  *)
(* leaves, and preDrag[1] still holds what the session started from.       *)
(***************************************************************************)
\* index of the session's item among the draggable children at drag start
StartIndex == IndexOf(preDrag[1].order, preDrag[1].item)

\* its index among the draggable children now
FinalIndex == IndexOf(DraggableOrder(children), preDrag[1].item)

\* C1: a session ended by pointer-up with the item at an index j other than
\* its index i at drag start has called onDrop exactly once, with (i, j);
\* and onDrop is called by no event other than the release of a session.
C1_OnDropIndices ==
    /\ (sessionEnd = "pointerup" /\ FinalIndex # StartIndex)
          => onDropCalls = <<[from |-> StartIndex, to |-> FinalIndex]>>
    /\ onDropCalls # <<>> => sessionEnd \in {"pointerup", "pointercancel"}

C1_Witness ==
    /\ sessionEnd = "pointerup"
    /\ StartIndex = 0
    /\ FinalIndex = NItems - 1
    /\ onDropCalls = <<[from |-> 0, to |-> NItems - 1]>>

\* C2: a session released with the item at the index it started from has
\* called onDrop not at all, whatever position updates ran in between, and
\* onDrop is never called while the session is active.
C2_NoOpDrop ==
    /\ (sessionEnd \in {"pointerup", "pointercancel"} /\ FinalIndex = StartIndex)
          => onDropCalls = <<>>
    /\ isDragging => onDropCalls = <<>>

C2_Witness ==
    /\ sessionEnd = "pointerup"
    /\ FinalIndex = StartIndex
    /\ preDrag[1].moved
    /\ onDropCalls = <<>>

\* the pointer-down events an item may receive
PointerDownEvents ==
    {[closest |-> c, interactive |-> k.interactive, inHandle |-> k.inHandle,
      pointerType |-> t.pointerType, touchWindow |-> t.touchWindow,
      scrollable |-> sc, point |-> pt] :
        c \in Items, k \in TargetKinds, t \in PointerKinds, sc \in BOOLEAN,
        pt \in {[x |-> 40, y |-> 40]}}

\* C3: while a session is active a pointer-down on any item, of any kind,
\* leaves every variable of the controller as it was (so it starts no pending
\* gesture); and in every reachable state document.body holds at most one
\* ghost and the container at most one placeholder.
C3_SingleSession ==
    /\ isDragging => \A e \in PointerDownEvents : handlePointerDown(State, e) = State
    /\ bodyGhosts <= 1
    /\ Count(children, Placeholder) <= 1

C3_Witness ==
    /\ isDragging
    /\ ~options.disabled
    /\ bodyGhosts = 1
    /\ Count(children, Placeholder) = 1
    /\ \E via \in itemListeners : Count(children, via) > 0

\* C4: in the state left by the event that ends a session (pointer-up,
\* pointer-cancel, update with disabled set, destroy) no ghost is attached to
\* document.body, no placeholder is in the container, and the controller is
\* idle: draggedElement null, isDragging false, draggedIndex -1.
C4_Teardown ==
    sessionEnd # "none" =>
        /\ bodyGhosts = 0
        /\ ghostElement = <<>>
        /\ Count(children, Placeholder) = 0
        /\ placeholder = Null
        /\ draggedElement = Null
        /\ ~isDragging
        /\ draggedIndex = -1

C4_Witness ==
    /\ sessionEnd = "destroy"
    /\ preDrag[1].moved
    /\ bodyGhosts = 0
    /\ Count(children, Placeholder) = 0

\* C5: in the state left by a pointer-up, a pointer-cancel or an update with
\* disabled set that ends a session, the drag-phase listeners on document
\* (handlePointerMove, handlePointerUp) are detached.
C5_ListenersDetached ==
    sessionEnd \in {"pointerup", "pointercancel", "disabled"} => ~DragAttached(docListeners)

\* C6: in the state left by the event that ends a session, the dragged
\* item's inline opacity, transition and pointer-events and its dragging
\* class are what they were just before the drag started.
C6_StyleRestored ==
    sessionEnd # "none" => itemStyle[preDrag[1].item] = preDrag[1].style

\* the closure of the pointer-down that set pendingDrag: the pending
\* listeners attached last
CurrentGesture ==
    LET L == docListeners
        i == CHOOSE k \in 1..Len(L) :
                 L[k].kind = "pending" /\ \A j \in (k + 1)..Len(L) : L[j].kind # "pending"
    IN L[i]

\* max(|dx|, |dy|) of the point p from the pending gesture's down point
MoveDistance(p) ==
    Max(Abs(p.y - pendingDrag[1].startY), Abs(p.x - pendingDrag[1].startX))

\* C7: with a gesture pending, a move whose max(|dx|, |dy|) from the down
\* point is strictly below the threshold of that gesture's pointer kind and
\* container (8, 20 or 30 px) starts no session.
C7_BelowThreshold ==
    pendingDrag # <<>> =>
        \A p \in PointsAt(Deltas), el \in ElapsedFor(docListeners) :
            MoveDistance(p) < dragThreshold(CurrentGesture)
                => ~dispatchMove(State, docListeners, 1, 0, p, el).isDragging

\* C8: with a touch gesture pending on an item of a scrollable container, a
\* move with |dy| > 1.5 |dx| from the down point starts no session and
\* leaves no pending gesture for a later move to promote.
C8_ScrollWins ==
    (pendingDrag # <<>> /\ CurrentGesture.isTouch /\ CurrentGesture.isScrollable) =>
        \A p \in PointsAt(Deltas), el \in ElapsedFor(docListeners) :
            2 * Abs(p.y - pendingDrag[1].startY) > 3 * Abs(p.x - pendingDrag[1].startX)
                => LET s == dispatchMove(State, docListeners, 1, 0, p, el)
                   IN ~s.isDragging /\ s.pendingDrag = <<>>

\* C9: an update with disabled set that arrives during a session leaves no
\* session, no ghost and no placeholder and calls onDrop not at all; and with
\* no session active a pointer-up or pointer-cancel calls onDrop not at all.
C9_DisableCancels ==
    /\ sessionEnd = "disabled" =>
          /\ ~isDragging
          /\ onDropCalls = <<>>
          /\ bodyGhosts = 0
          /\ Count(children, Placeholder) = 0
    /\ ~isDragging => \A type \in {"pointerup", "pointercancel"} :
          dispatchUp(State, docListeners, 1, 0, type).onDropCalls = <<>>

C9_Witness ==
    /\ sessionEnd = "disabled"
    /\ FinalIndex # StartIndex
    /\ ~isDragging
    /\ DragAttached(docListeners)

\* C10: while options.disabled is set no session is active and the last
\* event has called onDrop not at all.
C10_DisabledInert ==
    options.disabled => ~isDragging /\ onDropCalls = <<>>

\* C11: one event calls onDrop at most once; the pointer-up or pointer-cancel
\* that arrives during a session ends it, and with no session active
\* handlePointerUp changes nothing and calls nothing, so a terminal event
\* that arrives after the session has ended has no effect.
C11_OneTerminalEvent ==
    /\ Len(onDropCalls) <= 1
    /\ sessionEnd \in {"pointerup", "pointercancel"} =>
          /\ ~isDragging
          /\ ~DragAttached(docListeners)
    /\ ~isDragging => handlePointerUp(State) = State

C11_Witness ==
    /\ sessionEnd = "pointercancel"
    /\ Len(onDropCalls) = 1
    /\ ~isDragging
    /\ handlePointerUp(State) = State

\* C12: once destroy() has returned the observer is disconnected, no ghost
\* and no placeholder exists, no item in the container has the pointer-down
\* listener and document holds none of the controller's listeners.
C12_DestroyDetachesAll ==
    ~observing =>
        /\ bodyGhosts = 0
        /\ Count(children, Placeholder) = 0
        /\ \A i \in itemListeners : Count(children, i) = 0
        /\ docListeners = <<>>

\* C13: during a session, a position update that finds the pointer over an
\* item H of the container other than the dragged one leaves the dragged
\* item immediately before H in the order of the draggable children when the
\* pointer's coordinate on the layout axis is below H's midpoint, and
\* immediately after H otherwise.
C13_HoverPlacement ==
    isDragging =>
        \A p \in DragPoints, env \in HoverEnvs :
            (env.hovered \in Items /\ env.hovered # draggedElement) =>
                LET s == updateDragPosition(State, p, env)
                    o == DraggableOrder(s.children)
                    coordinate == IF env.horizontal THEN p.x ELSE p.y
                    start == IF env.horizontal THEN env.rect.left ELSE env.rect.top
                    extent == IF env.horizontal THEN env.rect.width ELSE env.rect.height
                IN IF 2 * coordinate < 2 * start + extent
                   THEN IndexOf(o, draggedElement) + 1 = IndexOf(o, env.hovered)
                   ELSE IndexOf(o, draggedElement) = IndexOf(o, env.hovered) + 1

\* [A, B, C] with A dragged past B's midpoint has become [B, A, C] and the
\* release has committed (0, 1)
C13_Witness ==
    /\ sessionEnd = "pointerup"
    /\ preDrag[1].item = 1
    /\ preDrag[1].order = [i \in 1..NItems |-> i]
    /\ DraggableOrder(children) = [i \in 1..NItems |-> IF i = 1 THEN 2 ELSE IF i = 2 THEN 1 ELSE i]
    /\ onDropCalls = <<[from |-> 0, to |-> 1]>>

\* C14: during a session, a position update that finds no draggable item
\* under the pointer leaves the dragged item first among the draggable
\* children when the pointer is beyond the first item's leading edge (left
\* in a horizontal layout, top otherwise), else last among them when it is
\* beyond the last item's trailing edge (right, bottom), and else leaves the
\* children as they were.
C14_EdgePlacement ==
    isDragging =>
        \A p \in DragPoints, env \in EdgeEnvs :
            LET s == updateDragPosition(State, p, env)
                o == DraggableOrder(s.children)
                f == env.firstRect
                l == env.lastRect
                beyondFirst == IF env.horizontal THEN p.x < f.left ELSE p.y < f.top
                beyondLast == IF env.horizontal
                              THEN p.x > l.left + l.width
                              ELSE p.y > l.top + l.height
            IN IF beyondFirst THEN o[1] = draggedElement
               ELSE IF beyondLast THEN o[Len(o)] = draggedElement
               ELSE s.children = children

\* index 1 of 3 dragged past the last item's trailing edge: the release has
\* committed (1, 2)
C14_Witness ==
    /\ sessionEnd = "pointerup"
    /\ preDrag[1].item = 2
    /\ preDrag[1].order = [i \in 1..NItems |-> i]
    /\ DraggableOrder(children)[NItems] = 2
    /\ onDropCalls = <<[from |-> 1, to |-> NItems - 1]>>

\* C15: with a handle selector configured, a pointer-down whose target is
\* not inside an element matching it leaves every variable of the controller
\* as it was: it creates no pending gesture and attaches no listener.
C15_HandleRequired ==
    options.handle =>
        \A e \in PointerDownEvents : ~e.inHandle => handlePointerDown(State, e) = State

\* a session has run with the handle configured, so a pointer-down inside the
\* handle does lead to one
C15_Witness ==
    /\ options.handle
    /\ sessionEnd = "pointerup"
    /\ docListeners = <<>>
    /\ \E via \in itemListeners : Count(children, via) > 0
    /\ \E e \in PointerDownEvents : e.inHandle /\ handlePointerDown(State, e) # State

\* C16: a pointer-cancel that arrives during a session does what a
\* pointer-up would do: it ends the session with the same cleanup, and calls
\* onDrop(startIndex, finalIndex) exactly when the final index differs from
\* the start index.  (The two differ only in the pending-gesture listeners,
\* which hear pointerup alone.)
C16_CancelCommits ==
    /\ isDragging =>
          LET up == dispatchUp(State, docListeners, 1, 0, "pointerup")
              cancel == dispatchUp(State, docListeners, 1, 0, "pointercancel")
          IN /\ cancel.onDropCalls = up.onDropCalls
             /\ [cancel EXCEPT !.docListeners = removeDragListeners(docListeners),
                               !.pendingDrag = <<>>]
                  = [up EXCEPT !.docListeners = removeDragListeners(docListeners),
                               !.pendingDrag = <<>>]
    /\ sessionEnd = "pointercancel" =>
          /\ ~isDragging
          /\ bodyGhosts = 0
          /\ Count(children, Placeholder) = 0
          /\ onDropCalls = IF FinalIndex # StartIndex
                           THEN <<[from |-> StartIndex, to |-> FinalIndex]>>
                           ELSE <<>>

C16_Witness ==
    /\ sessionEnd = "pointercancel"
    /\ FinalIndex # StartIndex
    /\ onDropCalls = <<[from |-> StartIndex, to |-> FinalIndex]>>
    /\ bodyGhosts = 0

\* the items muted by startDrag and carrying the dragging marker
MutedItems ==
    {i \in Items : /\ itemStyle[i].opacity = "0.3"
                   /\ itemStyle[i].pointerEvents = "none"
                   /\ itemStyle[i].dragging}

\* C17: in every reachable state, with isDragging set there is exactly one
\* ghost, exactly one placeholder in the container, and the dragged item is
\* the one muted item; with isDragging clear there is no ghost, no
\* placeholder and no muted item.
C17_SessionPartsAgree ==
    IF isDragging
    THEN /\ bodyGhosts = 1
         /\ ghostElement # <<>>
         /\ Count(children, Placeholder) = 1
         /\ draggedElement \in Items
         /\ MutedItems = {draggedElement}
    ELSE /\ bodyGhosts = 0
         /\ ghostElement = <<>>
         /\ Count(children, Placeholder) = 0
         /\ MutedItems = {}

C17_Witness ==
    /\ isDragging
    /\ preDrag[1].moved
    /\ MutedItems = {draggedElement}
    /\ bodyGhosts = 1

\* C18: while a session is active the placeholder is the next sibling of
\* the dragged item in the container, after drag-start and after every
\* position update.
C18_PlaceholderFollows ==
    isDragging => NextSibling(children, draggedElement) = Placeholder

C18_Witness ==
    /\ isDragging
    /\ preDrag[1].moved
    /\ FinalIndex # StartIndex
    /\ NextSibling(children, draggedElement) = Placeholder

\* the sequence o without the element d
Others(o, d) == SelectSeq(o, LAMBDA e : e # d)

\* o holds every item once, and the items other than d in the order they
\* had when the session started
KeepsOthers(o, d) ==
    /\ Len(o) = NItems
    /\ {o[i] : i \in 1..Len(o)} = Items
    /\ Others(o, d) = Others(preDrag[1].order, d)

\* C19: from drag-start to the state the session's end leaves, the
\* draggable children are a permutation of the pre-drag ones in which the
\* items other than the dragged one keep their relative order, and every
\* position update (over an item or at an edge) leaves them so.
C19_PermutationKept ==
    /\ preDrag # <<>> => KeepsOthers(DraggableOrder(children), preDrag[1].item)
    /\ isDragging =>
          \A p \in DragPoints, env \in HoverEnvs \cup EdgeEnvs :
              KeepsOthers(DraggableOrder(updateDragPosition(State, p, env).children),
                          draggedElement)

C19_Witness ==
    /\ sessionEnd = "pointerup"
    /\ StartIndex = 0
    /\ FinalIndex = NItems - 1
    /\ DraggableOrder(children) = Others(preDrag[1].order, preDrag[1].item) \o <<preDrag[1].item>>

\* C20: with one touch gesture pending on an item of a scrollable container,
\* a move that is not scroll-dominant starts the session when its distance
\* has reached TouchScrollThreshold, and also when it has reached 70% of it
\* and TimeGateMs or more have elapsed since the pointer-down.
C20_TimeGate ==
    (/\ pendingDrag # <<>>
     /\ pendingDrag[1].item \in Items
     /\ docListeners = <<PendingEntry(TRUE, TRUE)>>) =>
        \A p \in PointsAt(Deltas), elapsed \in Elapsed :
            LET dY == Abs(p.y - pendingDrag[1].startY)
                dX == Abs(p.x - pendingDrag[1].startX)
                reached == \/ MoveDistance(p) >= TouchScrollThreshold
                           \/ /\ 10 * MoveDistance(p) >= 7 * TouchScrollThreshold
                              /\ elapsed >= TimeGateMs
            IN (2 * dY <= 3 * dX /\ reached)
                  => dispatchMove(State, docListeners, 1, 0, p, <<elapsed>>).isDragging

\* C21: a pointer-down of type mouse or pen that starts a pending gesture
\* on a child item, with no other listener on document, is promoted by a
\* move of MouseThreshold or more from the down point, whatever the elapsed
\* time and the container's scrollability; a touch one on a non-scrollable
\* container by a move of TouchThreshold or more.
C21_MouseTouchThresholds ==
    (~isDragging /\ docListeners = <<>>) =>
        \A e \in PointerDownEvents :
            LET s == handlePointerDown(State, e)
                T == IF e.pointerType \in {"mouse", "pen"} THEN MouseThreshold
                     ELSE TouchThreshold
            IN (/\ s.pendingDrag # <<>>
                /\ e.pointerType \in {"mouse", "pen"} \/ ~e.scrollable) =>
                   \A p \in PointsAt(Deltas), elapsed \in Elapsed :
                       Max(Abs(p.y - e.point.y), Abs(p.x - e.point.x)) >= T
                           => dispatchMove(s, s.docListeners, 1, 0, p, <<elapsed>>).isDragging

\* C22: with a gesture pending and no session active, a pointer-up and a
\* pointer-cancel each leave no pending gesture, and no move after them
\* starts a session.
C22_ReleaseDiscardsPending ==
    (pendingDrag # <<>> /\ ~isDragging) =>
        \A type \in {"pointerup", "pointercancel"} :
            LET s == dispatchUp(State, docListeners, 1, 0, type)
            IN /\ s.pendingDrag = <<>>
               /\ s.onDropCalls = <<>>
               /\ \A p \in PointsAt(Deltas), el \in ElapsedFor(s.docListeners) :
                      ~dispatchMove(s, s.docListeners, 1, 0, p, el).isDragging

\* C23: with a handle selector configured and the controller idle and
\* enabled, a pointer-down on an interactive control inside an item that
\* matches the handle selector starts a pending gesture.
C23_ControlAsHandle ==
    (options.handle /\ ~options.disabled /\ ~isDragging) =>
        \A e \in PointerDownEvents :
            (e.interactive = "inner" /\ e.inHandle)
                => handlePointerDown(State, e).pendingDrag # <<>>

\* C24: in every reachable state, also where setPointerCapture may throw,
\* an active session with its ghost and placeholder has the drag-phase
\* listeners (handlePointerUp on pointerup and pointercancel) attached to
\* document, so that a release can end it.
C24_SessionCanEnd ==
    (isDragging /\ bodyGhosts > 0 /\ Count(children, Placeholder) > 0)
        => DragAttached(docListeners)

\* C25: at most one frame callback is queued at any time, and it is the one
\* animationFrameId names; during a session two move events in a row, with
\* no frame between them, leave exactly one callback queued, with the
\* coordinates of the second.
C25_OnePendingFrame ==
    /\ Len(rafCallbacks) <= 1
    /\ rafCallbacks # <<>> => rafCallbacks[1].id = animationFrameId
    /\ isDragging =>
          \A p1 \in DragPoints, p2 \in DragPoints :
              LET s == handlePointerMove(handlePointerMove(State, p1), p2)
              IN /\ Len(s.rafCallbacks) = 1
                 /\ s.rafCallbacks[1].x = p2.x
                 /\ s.rafCallbacks[1].y = p2.y
                 /\ s.rafCallbacks[1].id = s.animationFrameId

\* a frame has run in this session and a later move has queued the next one
C25_Witness ==
    /\ isDragging
    /\ preDrag[1].moved
    /\ Len(rafCallbacks) = 1
    /\ rafCallbacks[1].x = DragPoint.x
    /\ rafCallbacks[1].y = DragPoint.y

\* C26: a frame callback that is queued when a session starts was scheduled
\* before that session; running it leaves the new session's ghost and the
\* order of the children as they are.
C26_NoStaleFrame ==
    [][(~isDragging /\ isDragging' /\ rafCallbacks' # <<>>) =>
          \A env \in HoverEnvs \cup EdgeEnvs :
              LET s == frameCallback(State', Head(rafCallbacks'), env)
              IN s.ghostElement = ghostElement' /\ s.children = children']_vars

\* C27: document.body has user-select 'none' and cursor 'grabbing' exactly
\* while a session is active; with no session active both are restored.
C27_BodyOverrides ==
    IF isDragging
    THEN bodyStyle = [userSelect |-> "none", cursor |-> "grabbing"]
    ELSE bodyStyle = [userSelect |-> "", cursor |-> ""]

\* C28: while the observer is connected and no session is active, every
\* draggable child of the container has the pointer-down listener, whenever
\* it was added; and the callback the observer runs for a child added during
\* a session attaches no listener.
C28_ObserverReattaches ==
    /\ (observing /\ ~isDragging) =>
          \A i \in Items : Count(children, i) > 0 => i \in itemListeners
    /\ isDragging =>
          \A i \in Items :
              Count(children, i) = 0 =>
                  observerCallback(State, [State EXCEPT !.children = Append(@, i)]).itemListeners
                      = itemListeners

\* an item added during the session has its listener in the state the
\* release leaves
C28_Witness ==
    /\ sessionEnd = "pointerup"
    /\ observing
    /\ \E i \in Items :
          /\ IndexOf(preDrag[1].order, i) = -1
          /\ Count(children, i) > 0
          /\ i \in itemListeners

\* C29: a step taken with no session active leaves the draggable children
\* in the order they had, and unless it starts a session (which inserts the
\* placeholder) it leaves the whole child list of the container as it was.
C29_OrderOnlyInSession ==
    [][~isDragging =>
          /\ DraggableOrder(children') = DraggableOrder(children)
          /\ ~isDragging' => children' = children]_vars

\* no session is active and a frame callback scheduled in the last one is
\* still queued
C29_Witness ==
    /\ ~isDragging
    /\ sessionEnd = "disabled"
    /\ rafCallbacks # <<>>
    /\ preDrag[1].moved

\* C30: during a session every position update puts the ghost at the
\* pointer position minus the grab offset of the promoted gesture, which is
\* that gesture's down point minus the top-left corner of the item, also
\* when an earlier pointer-down had recorded another offset.
C30_GhostKeepsGrabOffset ==
    isDragging =>
        \A p \in DragPoints, env \in HoverEnvs \cup EdgeEnvs :
            updateDragPosition(State, p, env).ghostElement =
                <<[top |-> p.y - (preDrag[1].downY - ItemRect.top),
                   left |-> p.x - (preDrag[1].downX - ItemRect.left)]>>

\* the promoted gesture went down at the second down point, and the
\* listeners of another pointer-down are still on document
C30_Witness ==
    /\ isDragging
    /\ preDrag[1].downX = 44
    /\ preDrag[1].downY = 48
    /\ offsetY = 18
    /\ PendingCount(docListeners) >= 1

\* C31 (as stated): a pointer-up that ends a session finds no position
\* update queued, every move before it having been superseded or applied.
C31_NoUpdateLostAtRelease ==
    [][(isDragging /\ sessionEnd' = "pointerup") => rafCallbacks = <<>>]_vars

\* C31 (amended): a release during a session cancels the position update
\* that is still queued and applies none: it leaves no callback queued, and
\* the final index it reports is the dragged item's index in the order the
\* last applied update left.
C31_ReleaseReadsAppliedOrder ==
    isDragging =>
        \A type \in {"pointerup", "pointercancel"} :
            LET s == dispatchUp(State, docListeners, 1, 0, type)
                now == IndexOf(DraggableOrder(children), draggedElement)
            IN /\ s.rafCallbacks = <<>>
               /\ s.animationFrameId = Null
               /\ DraggableOrder(s.children) = DraggableOrder(children)
               /\ s.onDropCalls = IF now # StartIndex
                                  THEN <<[from |-> StartIndex, to |-> now]>>
                                  ELSE <<>>

\* a move has arrived after the last applied update and its callback is
\* still queued when the release comes
C31_Witness ==
    /\ isDragging
    /\ preDrag[1].moved
    /\ FinalIndex # StartIndex
    /\ Len(rafCallbacks) = 1
    /\ DragAttached(docListeners)

\* the items of the order o that come before d and are still children
Preceding(o, d) ==
    {i \in Items : /\ IndexOf(o, i) # -1
                   /\ IndexOf(o, i) < IndexOf(o, d)
                   /\ Count(children, i) > 0}

\* C32: a release that has called onDrop ends a session in which the items
\* present at commit that come before the dragged item are not the ones
\* that came before it when the drag started.
C32_OnDropOnlyOnRelativeMove ==
    (sessionEnd \in {"pointerup", "pointercancel"} /\ onDropCalls # <<>>) =>
        Preceding(DraggableOrder(children), preDrag[1].item)
            # Preceding(preDrag[1].order, preDrag[1].item)

\* the channels of a table that are registered with the client
Registered(chs, table) == {ch \in chs : ch.table = table}

\* every closure a subscribe call has returned and a caller still holds
HeldUnsubscribes ==
    unsubscribers \cup {unsubCats[i] : i \in DOMAIN unsubCats}
                  \cup {unsubSpots[i] : i \in DOMAIN unsubSpots}

\* C38: the client has at most one channel registered per table, the one
\* the module variable names; and a further subscribe call leaves the
\* channel it creates as the table's only registered channel, the one
\* registered before it being removed.
C38_OneChannelPerTable ==
    \A table \in {"categories", "spots"} :
        /\ Cardinality(Registered(clientChannels, table)) <= 1
        /\ \A ch \in Registered(clientChannels, table) : ch.id = channelOf(Client, table)
        /\ LET s == subscribeTo(Client, table, "other")
           IN /\ Cardinality(Registered(s.clientChannels, table)) = 1
              /\ \A ch \in Registered(s.clientChannels, table) :
                    ch.id = channelsCreated + 1 /\ ch \notin clientChannels

\* both tables have a channel registered, and the categories channel is
\* one that replaced an earlier one whose closure a caller still holds
C38_Witness ==
    /\ Registered(clientChannels, "categories") # {}
    /\ Registered(clientChannels, "spots") # {}
    /\ \E u \in unsubscribers :
          u.table = "categories" /\ u.channel < categoriesChannel

\* C39: invoking a held closure whose channel a later subscribe call has
\* replaced leaves every registered channel registered.
C39_UnsubscribeOwnChannelOnly ==
    \A u \in HeldUnsubscribes :
        u.channel # channelOf(Client, u.table) =>
            unsubscribe(Client, u).clientChannels = clientChannels

\* C33: no two categories of the store have the same id.
C33_NoDuplicateCategory ==
    \A i, j \in 1..Len(categories) : categories[i].id = categories[j].id => i = j

\* C36: the categories of the store are in non-decreasing display_order.
C36_StoreOrdered ==
    \A i, j \in 1..Len(categories) :
        i < j => categories[i].display_order <= categories[j].display_order

\* every call has returned and every event has arrived, and the store holds
\* a category in front of one that was created before it
C36_Witness ==
    /\ inFlight = <<>>
    /\ realtime = <<>>
    /\ callsMade = MaxCalls
    /\ \E i, j \in 1..Len(categories) :
          /\ i < j
          /\ categories[i].id > categories[j].id
          /\ categories[i].display_order < categories[j].display_order

\* C34: no category of the store holds two spots with the same id.
C34_NoDuplicateSpot ==
    \A c \in 1..Len(categories) :
        \A i, j \in 1..Len(categories[c].spots) :
            categories[c].spots[i].id = categories[c].spots[j].id => i = j

\* C35: no spot of the store lists a tag id twice.
C35_NoDuplicateTag ==
    \A s \in 1..Len(allSpots(categories)) :
        \A i, j \in 1..Len(allSpots(categories)[s].tags) :
            allSpots(categories)[s].tags[i].id = allSpots(categories)[s].tags[j].id
                => i = j

\* a call whose insert met the unique constraint is about to update the
\* store, where the other call for the spot and tag has put the tag already
C35_Witness ==
    \E p \in 1..Len(inFlight) :
        /\ inFlight[p].op = "addTagToSpot"
        /\ inFlight[p].data.result = "duplicate"
        /\ hasTag(categories, inFlight[p].data.spotId, inFlight[p].data.tagId)
        /\ callsMade = 2

\* the positions of q whose entry satisfies keep, and the one of them that
\* is the k-th
Kept(q, keep(_)) == {i \in 1..Len(q) : keep(q[i])}

Nth(K, k) == CHOOSE i \in K : Cardinality({j \in K : j <= i}) = k

tagged(s) == \E i \in 1..Len(s.tags) : s.tags[i].id = selectedTagFilter

\* C37: with no tag selected filteredCategories is the categories store;
\* with tag t selected its entries are, in their order, the categories with
\* a spot tagged t, each as it is in the store but for its spots, which
\* are, in their order, its spots tagged t.
C37_FilterKeepsTagged ==
    LET F == filteredCategories(categories, selectedTagFilter)
        K == Kept(categories, LAMBDA c : \E i \in 1..Len(c.spots) : tagged(c.spots[i]))
    IN IF selectedTagFilter = Null THEN F = categories
       ELSE /\ Len(F) = Cardinality(K)
            /\ \A k \in 1..Len(F) :
                  LET c == categories[Nth(K, k)]
                      S == Kept(c.spots, tagged)
                  IN /\ F[k].id = c.id
                     /\ F[k].name = c.name
                     /\ F[k].expanded = c.expanded
                     /\ F[k].display_order = c.display_order
                     /\ Len(F[k].spots) = Cardinality(S)
                     /\ \A n \in 1..Cardinality(S) : F[k].spots[n] = c.spots[Nth(S, n)]

\* a tag is selected that leaves out a category and, of a category it
\* keeps, a spot that comes before one it keeps
C37_Witness ==
    /\ selectedTagFilter # Null
    /\ Len(filteredCategories(categories, selectedTagFilter)) = 1
    /\ Len(categories) = 2
    /\ \E c \in 1..Len(categories) :
          /\ Len(categories[c].spots) >= 2
          /\ ~tagged(categories[c].spots[1])
          /\ tagged(categories[c].spots[2])

====
